---- MODULE Spec2Model ----
(***************************************************************************)
(* A model of the streaming feature/pipeline engine of the fraud-detection *)
(* project: FeatureProcessor (feature_engineering/feature_processor.py),   *)
(* PipelineOrchestrator (pipeline/pipeline_orchestrator.py) and            *)
(* CacheManager (utils/cache_manager.py).                                  *)
(*                                                                         *)
(* Time is counted in whole hours since a Monday 00:00.  Floating point    *)
(* results are kept exact: a mean or a quotient is a reduced fraction      *)
(* [n, d], a square root is kept as the fraction under the root, and the   *)
(* NaN that pandas returns for the standard deviation of one sample is a   *)
(* value of its own.                                                       *)
(***************************************************************************)
EXTENDS Integers, Sequences, FiniteSets, TLC

VARIABLES
    historical_transactions, \* FeatureProcessor.historical_transactions (rows in frame order)
    frame_index,             \* the index labels of that frame, one per row
    now,                     \* the wall clock, in hours
    ret,                     \* the last sequential process_transaction call and its outcome
    workers,                 \* the threads of the concurrent runs, each with its position
    batch,                   \* the orchestrator's batch in progress
    metrics,                 \* MetricsCollector gauges and counters
    scorer_calls,            \* how often FraudDetector.predict was called
    redis,                   \* the keys of the Redis server behind CacheManager
    clients,                 \* the threads calling CacheManager, each with its position
    last_put,                \* the last cache_prediction call that completed
    optimizer,               \* the PerformanceOptimizer, its host and its last tick
    recovery                 \* the ErrorRecovery call in progress and what it did

vars == <<historical_transactions, frame_index, now, ret, workers, batch, metrics,
          scorer_calls, redis, clients, last_put, optimizer, recovery>>

(***************************************************************************)
(* Bounds of the model.                                                    *)
(***************************************************************************)
MaxHist == 2
NumWorkers == 2
MaxBatch == 2
NumClients == 2
MaxCacheClock == 2

(***************************************************************************)
(* Program constants.                                                      *)
(***************************************************************************)
lookback_days == 30

None == [kind |-> "None"]

(***************************************************************************)
(* Exact arithmetic.                                                       *)
(***************************************************************************)
RECURSIVE GCD(_, _)
GCD(a, b) == IF b = 0 THEN a ELSE GCD(b, a % b)

Abs(x) == IF x < 0 THEN -x ELSE x

\* The fraction n/d (d > 0) in lowest terms.
Rat(n, d) ==
    LET g == GCD(Abs(n), d)
    IN  [n |-> n \div g, d |-> d \div g]

Zero == Rat(0, 1)
NaN == [kind |-> "nan"]
\* The non-negative square root of the fraction r, kept exact.
SqrtOf(r) == IF r.n = 0 THEN Zero ELSE [kind |-> "sqrt", sq |-> r]

RECURSIVE SumSeq(_)
SumSeq(s) == IF s = <<>> THEN 0 ELSE Head(s) + SumSeq(Tail(s))

RECURSIVE MaxSeq(_)
MaxSeq(s) ==
    IF Len(s) = 1 THEN Head(s)
    ELSE LET m == MaxSeq(Tail(s)) IN IF Head(s) >= m THEN Head(s) ELSE m

Squares(s) == [i \in 1..Len(s) |-> s[i] * s[i]]

\* Series.mean()
Mean(s) == Rat(SumSeq(s), Len(s))

\* Series.std(): the sample standard deviation (ddof = 1), NaN for one sample.
Std(s) ==
    LET k == Len(s)
    IN  IF k < 2 THEN NaN
        ELSE SqrtOf(Rat(k * SumSeq(Squares(s)) - SumSeq(s) * SumSeq(s), k * (k - 1)))

(***************************************************************************)
(* Transactions.  A transaction is a dict; the keys it lacks are listed in *)
(* its `missing` set, and reading one of them raises KeyError.  Its        *)
(* timestamp is the text of a date, <<day, hour>>, which pd.to_datetime    *)
(* turns into an instant.                                                  *)
(***************************************************************************)
Fields == {"transaction_id", "user_id", "amount", "timestamp", "location",
           "merchant_category"}

Has(tx, f) == f \notin tx.missing

to_datetime(text) == text[1] * 24 + text[2]
IsoFormat(t) == <<t \div 24, t % 24>>

\* .hour and .weekday() of an instant (day 0 is a Monday)
HourOf(t) == t % 24
WeekdayOf(t) == (t \div 24) % 7

\* The dict without key f (transaction.pop(f))
Drop(tx, f) == [tx EXCEPT !.missing = @ \cup {f}]

(***************************************************************************)
(* FeatureProcessor.  Every operator takes the frame it reads, so that the *)
(* sequential call and the steps of a thread use the same definitions.     *)
(***************************************************************************)
RequiredFields == {"user_id", "amount", "timestamp", "location", "merchant_category"}

\* NewRow as it would be with transaction.get(key): a missing key raises nothing
\* and the row is built from what the dict holds.
NewRowLenient(tx) ==
    [user_id |-> tx.user_id,
     amount |-> tx.amount,
     timestamp |-> to_datetime(tx.timestamp),
     latitude |-> tx.location[1],
     longitude |-> tx.location[2],
     merchant_category |-> tx.merchant_category]

\* The one-row frame tx_df built from the transaction; None when a key is missing
\* (the dict literal raises KeyError before anything is stored).
NewRow(tx) ==
    IF \E f \in RequiredFields : ~Has(tx, f) THEN None
    ELSE [user_id |-> tx.user_id,
          amount |-> tx.amount,
          timestamp |-> to_datetime(tx.timestamp),
          latitude |-> tx.location[1],
          longitude |-> tx.location[2],
          merchant_category |-> tx.merchant_category]

\* A concat that also writes the new amount into the rows the user already has.
ConcatOverwriting(frame, row) ==
    Append([i \in 1..Len(frame) |->
               IF frame[i].user_id = row.user_id
               THEN [frame[i] EXCEPT !.amount = row.amount]
               ELSE frame[i]],
           row)

\* pd.concat([frame, tx_df]).reset_index(drop=True)
Concat(frame, row) == Append(frame, row)

\* An eviction pass that keeps every row.
EvictNothing(frame, clock) == frame

\* frame[frame['timestamp'] >= cutoff_date], cutoff_date = now - lookback_days
EvictOld(frame, clock) ==
    SelectSeq(frame, LAMBDA e : e.timestamp >= clock - lookback_days * 24)

\* update_historical_data with a cutoff counted back from the timestamp of the
\* transaction instead of the wall clock.
update_historical_data_by_tx_time(frame, tx, clock) ==
    SelectSeq(Append(frame, NewRowLenient(tx)),
              LAMBDA e : e.timestamp >= to_datetime(tx.timestamp) - lookback_days * 24)

update_historical_data(frame, tx, clock) ==
    EvictOld(Concat(frame, NewRow(tx)), clock)

UserRows(frame, user_id) == SelectSeq(frame, LAMBDA e : e.user_id = user_id)

Column(rows, name) == [i \in 1..Len(rows) |-> rows[i][name]]

\* _calculate_user_statistics, lines 35-49, on the rows lines 30-33 selected
UserStatistics(user_history) ==
    LET amounts == Column(user_history, "amount")
    IN  IF user_history = <<>>
        THEN [avg_amount |-> Zero, max_amount |-> Zero,
              transaction_frequency |-> Zero, std_amount |-> Zero]
        ELSE [avg_amount |-> Mean(amounts),
              max_amount |-> Rat(MaxSeq(amounts), 1),
              transaction_frequency |-> Rat(Len(user_history), lookback_days),
              std_amount |-> Std(amounts)]

calculate_user_statistics(frame, user_id, current_timestamp) ==
    LET lookback_date == current_timestamp - lookback_days * 24
    IN  UserStatistics(SelectSeq(frame, LAMBDA e :
                           e.user_id = user_id /\ e.timestamp >= lookback_date))

Distance(tx, row) ==
    LET dlat == tx.location[1] - row.latitude
        dlon == tx.location[2] - row.longitude
    IN  SqrtOf(Rat(dlat * dlat + dlon * dlon, 1))

\* The rows sort_values('timestamp').iloc[-1] can give: the sort is not stable,
\* so any row holding the greatest timestamp may come last.
LastByTimestamp(rows) ==
    {rows[i] : i \in {j \in 1..Len(rows) :
                        \A k \in 1..Len(rows) : rows[k].timestamp <= rows[j].timestamp}}

\* _calculate_location_features, line 72: the distance when the frame is empty
NoDistance == [raised |-> FALSE, distance_from_last_tx |-> SqrtOf(Zero)]

\* _calculate_location_features, lines 64-70, on the rows lines 62-63 selected:
\* a distance, or IndexError when the selection is empty (iloc[-1]).
LastTxDistance(user_history, tx) ==
    IF user_history = <<>> THEN {[raised |-> TRUE, distance_from_last_tx |-> None]}
    ELSE {[raised |-> FALSE, distance_from_last_tx |-> Distance(tx, r)] :
             r \in LastByTimestamp(user_history)}

\* _calculate_location_features, lines 62-70, on the frame these lines load: a
\* distance, or IndexError when the frame has no row of this user.
DistanceFromLastTx(frame, tx) == LastTxDistance(UserRows(frame, tx.user_id), tx)

\* The outcomes of _calculate_location_features when nothing stores the frame
\* between the check of line 60 and the loads of lines 62-63.
calculate_location_features(frame, tx) ==
    IF frame = <<>> THEN {NoDistance}
    ELSE DistanceFromLastTx(frame, tx)

\* _calculate_velocity_features with an empty-history branch that returns the
\* first count only.
calculate_velocity_features_partial(frame, tx) ==
    LET current_timestamp == to_datetime(tx.timestamp)
        user_history == SelectSeq(frame, LAMBDA e : e.user_id = tx.user_id)
    IN  IF user_history = <<>>
        THEN [tx_count_1h |-> 0]
        ELSE [tx_count_1h |->
                 Len(SelectSeq(user_history, LAMBDA e : e.timestamp >= current_timestamp - 1)),
              tx_count_24h |->
                 Len(SelectSeq(user_history, LAMBDA e : e.timestamp >= current_timestamp - 24)),
              tx_count_7d |->
                 Len(SelectSeq(user_history, LAMBDA e : e.timestamp >= current_timestamp - 7 * 24))]

\* A count of the rows up to t instead of the rows from t on.
CountUntil(rows, t) == Len(SelectSeq(rows, LAMBDA e : e.timestamp <= t))

CountSince(rows, t) == Len(SelectSeq(rows, LAMBDA e : e.timestamp >= t))

\* _calculate_velocity_features, lines 94-113, on the rows lines 90-92 selected
VelocityCounts(user_history, current_timestamp) ==
    IF user_history = <<>>
    THEN [tx_count_1h |-> 0, tx_count_24h |-> 0, tx_count_7d |-> 0]
    ELSE [tx_count_1h |-> CountSince(user_history, current_timestamp - 1),
          tx_count_24h |-> CountSince(user_history, current_timestamp - 24),
          tx_count_7d |-> CountSince(user_history, current_timestamp - 7 * 24)]

calculate_velocity_features(frame, tx) ==
    VelocityCounts(UserRows(frame, tx.user_id), to_datetime(tx.timestamp))

(***************************************************************************)
(* The frame with its index.  A DataFrame carries one index label per row. *)
(* pd.concat(...).reset_index(drop=True) numbers the rows 0 .. n-1; a      *)
(* boolean selection keeps the labels of the rows it keeps.  A comparison  *)
(* of a column is a boolean Series over the labels of the frame it was     *)
(* taken from, and frame[mask] looks the mask up by label.                 *)
(***************************************************************************)
EmptyFrame == [rows |-> <<>>, index |-> <<>>]

Labels(frame) == {frame.index[i] : i \in 1..Len(frame.index)}

\* frame.loc[label]
RowAt(frame, label) ==
    frame.rows[CHOOSE i \in 1..Len(frame.index) : frame.index[i] = label]

\* The boolean Series over the labels of `frame` that is True at the labels in `true`.
Mask(frame, true) == [index |-> Labels(frame), true |-> true]
NoMask == [index |-> {}, true |-> {}]

\* frame['user_id'] == user_id
UserMask(frame, user_id) ==
    Mask(frame, {l \in Labels(frame) : RowAt(frame, l).user_id = user_id})

\* frame['timestamp'] >= t
SinceMask(frame, t) ==
    Mask(frame, {l \in Labels(frame) : RowAt(frame, l).timestamp >= t})

\* mask1 & mask2: the Series are aligned on the union of their labels, and a
\* label one of them lacks gives False.
AndMask(mask1, mask2) ==
    [index |-> mask1.index \cup mask2.index, true |-> mask1.true \cap mask2.true]

\* frame[mask] for a boolean Series: the mask is reindexed to the labels of the
\* frame; a label of the frame that the mask lacks raises IndexingError
\* (Unalignable boolean Series provided as indexer), otherwise the rows whose
\* label is True are kept, in frame order, with their labels.
BoolIndex(frame, mask) ==
    IF ~(Labels(frame) \subseteq mask.index)
    THEN [raised |-> TRUE, frame |-> EmptyFrame]
    ELSE LET index == SelectSeq(frame.index, LAMBDA l : l \in mask.true)
         IN  [raised |-> FALSE,
              frame |-> [rows |-> [k \in 1..Len(index) |-> RowAt(frame, index[k])],
                         index |-> index]]

\* pd.concat([frame, tx_df]).reset_index(drop=True)
ConcatReset(frame, row) ==
    LET rows == Concat(frame.rows, row)
    IN  [rows |-> rows, index |-> [i \in 1..Len(rows) |-> i - 1]]

\* The index labels update_historical_data leaves when it runs alone on the
\* frame: those of the rows of the renumbered concatenation that are kept.
IndexAfterUpdate(rows, index, tx, clock) ==
    LET all == ConcatReset([rows |-> rows, index |-> index], NewRowLenient(tx))
    IN  BoolIndex(all, SinceMask(all, clock - lookback_days * 24)).frame.index

BasicFeatures(tx) ==
    [amount |-> tx.amount,
     hour_of_day |-> HourOf(to_datetime(tx.timestamp)),
     is_weekend |-> WeekdayOf(to_datetime(tx.timestamp)) >= 5]

\* features.update(...) of the four parts, in the order of lines 156-178: the
\* dict holds the keys of all four, a later part overriding an earlier one.
FeatureVector(basic, stats, loc, vel) ==
    vel @@ [distance_from_last_tx |-> loc.distance_from_last_tx] @@ stats @@ basic

\* The outcomes of FeatureProcessor.process_transaction run alone on `frame`:
\* the exception or the features, and the frame it leaves.
process_transaction(frame, tx, clock) ==
    IF NewRow(tx) = None
    THEN {[status |-> "raise", error |-> "KeyError", features |-> None, frame |-> frame]}
    ELSE LET updated == update_historical_data(frame, tx, clock)
             stats == calculate_user_statistics(updated, tx.user_id,
                                                to_datetime(tx.timestamp))
             vel == calculate_velocity_features(updated, tx)
         IN  {IF loc.raised
              THEN [status |-> "raise", error |-> "IndexError", features |-> None,
                    frame |-> updated]
              ELSE [status |-> "ok", error |-> "",
                    features |-> FeatureVector(BasicFeatures(tx), stats, loc, vel),
                    frame |-> updated]
              : loc \in calculate_location_features(updated, tx)}

(***************************************************************************)
(* The scorer.  FraudDetector.predict is called by the orchestrator and by *)
(* the tests but is not part of the sources; its contract is that of the   *)
(* specification: it returns a prediction or fails.                        *)
(***************************************************************************)
Predictions ==
    {[is_fraud |-> FALSE, fraud_probability |-> Rat(1, 10)],
     [is_fraud |-> TRUE, fraud_probability |-> Rat(9, 10)]}

predict(features) ==
    {[raised |-> FALSE, prediction |-> p] : p \in Predictions}
        \cup {[raised |-> TRUE, prediction |-> None]}

(***************************************************************************)
(* CacheManager over a Redis server.  The server holds, for a key, the     *)
(* stored text and the instant at which it expires; it runs one command    *)
(* at a time.  A prediction is stored as its JSON text.                    *)
(***************************************************************************)
PredKey(transaction_key) == <<"pred", transaction_key>>

\* json.dumps of a prediction dict
dumps(p) == <<"is_fraud", IF p.is_fraud THEN "true" ELSE "false",
              "fraud_probability", p.fraud_probability.n, p.fraud_probability.d>>

\* json.loads that reads Python's spelling of a boolean, not JSON's
loadsPythonBool(text) ==
    [is_fraud |-> text[2] = "True", fraud_probability |-> Rat(text[4], text[5])]

\* json.loads of such a text
loads(text) == [is_fraud |-> text[2] = "true", fraud_probability |-> Rat(text[4], text[5])]

\* Whether the server still holds a live value for the key at `clock`.
Live(server, key, clock) == server[key] # None /\ clock < server[key].expire_at

\* A value that is not None
Some(x) == [some |-> x]

\* GET key: the stored text, or None when the key is absent or expired.
RedisGet(server, key, clock) ==
    IF Live(server, key, clock) THEN Some(server[key].data) ELSE None

\* SETEX key seconds value: value and expiry are set together.
RedisSetex(server, key, seconds, value, clock) ==
    [server EXCEPT ![key] = [data |-> value, expire_at |-> clock + seconds]]

\* The server after the lazy deletion a read of an expired key performs.
RedisExpire(server, key, clock) ==
    IF server[key] # None /\ ~Live(server, key, clock)
    THEN [server EXCEPT ![key] = None] ELSE server

\* cache_prediction with SETNX: a live value is not overwritten.
cache_prediction_setnx(server, transaction_key, prediction, expire_in, clock) ==
    IF Live(server, PredKey(transaction_key), clock) THEN server
    ELSE RedisSetex(server, PredKey(transaction_key), expire_in, dumps(prediction), clock)

\* CacheManager.cache_prediction: the server after the call
cache_prediction(server, transaction_key, prediction, expire_in, clock) ==
    RedisSetex(server, PredKey(transaction_key), expire_in, dumps(prediction), clock)

\* CacheManager.get_cached_prediction, given what GET answered
get_cached_prediction(cached_data) ==
    IF cached_data # None /\ cached_data.some # <<>> THEN loads(cached_data.some) ELSE None

(***************************************************************************)
(* The inputs of the model.                                                *)
(***************************************************************************)
Users == {1, 2}
\* What is bought, and where: the amount and the (latitude, longitude).
Purchases == {[amount |-> 10, location |-> <<0, 0>>],
              [amount |-> 30, location |-> <<3, 4>>]}
\* How old a submitted transaction's timestamp is: current, two hours old,
\* and older than the lookback window.
Ages == {0, 2, lookback_days * 24 + 1}
\* The clock at the start, 10:00 on a Friday, and the later instants at which
\* calls are made: a day later, and the lookback window later.
StartClock == 60 * 24 + 10
Clocks == {StartClock, StartClock + 24, StartClock + lookback_days * 24}

Tx(id, u, a, t, loc) ==
    [transaction_id |-> id, user_id |-> u, amount |-> a, timestamp |-> IsoFormat(t),
     location |-> loc, merchant_category |-> "retail", missing |-> {}]

WellFormed(clock) ==
    {Tx("TX1", u, b.amount, clock - g, b.location) :
        u \in Users, b \in Purchases, g \in Ages}

Malformed(clock) == {Drop(Tx("TX1", 1, 10, clock, <<0, 0>>), f) : f \in Fields}

Transactions(clock) == WellFormed(clock) \cup Malformed(clock)

\* The keys the cache is used with.
CacheKeys == {PredKey(k) : k \in {"TX1", "TX2", "TX3", "TX4"}}
EmptyRedis == [k \in CacheKeys |-> None]

NoCall == [status |-> "none", error |-> "", features |-> None, tx |-> None,
           before |-> <<>>, at |-> 0]

(***************************************************************************)
(* Spec: one FeatureProcessor called from one thread.                      *)
(***************************************************************************)
OthersIdle ==
    /\ workers = <<>>
    /\ batch = None
    /\ metrics = None
    /\ scorer_calls = 0
    /\ redis = EmptyRedis
    /\ clients = <<>>
    /\ last_put = None
    /\ optimizer = None
    /\ recovery = None

Init ==
    /\ historical_transactions = <<>>
    /\ frame_index = <<>>
    /\ now = StartClock
    /\ ret = NoCall
    /\ OthersIdle

\* A call of FeatureProcessor.process_transaction(tx), from entry to return or raise.
Process(tx) ==
    /\ Len(historical_transactions) < MaxHist
    /\ \E out \in process_transaction(historical_transactions, tx, now) :
        /\ historical_transactions' = out.frame
        /\ frame_index' = IF NewRow(tx) = None
                          THEN frame_index
                          ELSE IndexAfterUpdate(historical_transactions, frame_index, tx, now)
        /\ ret' = [status |-> out.status, error |-> out.error, features |-> out.features,
                   tx |-> tx, before |-> historical_transactions, at |-> now]
    /\ UNCHANGED <<now, workers, batch, metrics, scorer_calls, redis, clients, last_put, optimizer, recovery>>

\* Time passes between two calls.
Tick(t) ==
    /\ t > now
    /\ now' = t
    /\ UNCHANGED <<historical_transactions, frame_index, ret, workers, batch, metrics,
                   scorer_calls, redis, clients, last_put, optimizer, recovery>>

Next ==
    \/ \E tx \in Transactions(now) : Process(tx)
    \/ \E t \in Clocks : Tick(t)

Spec == Init /\ [][Next]_vars

(***************************************************************************)
(* Claims about FeatureProcessor.process_transaction, checked under Spec.  *)
(***************************************************************************)
Called == ret.status # "none"
Returned == ret.status = "ok"

\* The rows earlier calls appended that the call did not evict.
PriorRows == EvictOld(ret.before, ret.at)

\* C1: the aggregates of a returned feature vector (avg_amount, max_amount,
\* std_amount, transaction_frequency) are those of the rows appended by earlier
\* calls: the row of the transaction being processed is not among them.
C1_OwnRowExcluded ==
    Returned =>
        LET prior == calculate_user_statistics(PriorRows, ret.tx.user_id,
                                               to_datetime(ret.tx.timestamp))
        IN  /\ ret.features.avg_amount = prior.avg_amount
            /\ ret.features.max_amount = prior.max_amount
            /\ ret.features.std_amount = prior.std_amount
            /\ ret.features.transaction_frequency = prior.transaction_frequency

\* C2: a call for an entity without any row before the call returns
\* avg_amount = max_amount = std_amount = transaction_frequency = 0.0 and
\* tx_count_1h = tx_count_24h = tx_count_7d = 0.
C2_EmptyHistoryDefaults ==
    (Returned /\ UserRows(ret.before, ret.tx.user_id) = <<>>) =>
        /\ ret.features.avg_amount = Zero
        /\ ret.features.max_amount = Zero
        /\ ret.features.std_amount = Zero
        /\ ret.features.transaction_frequency = Zero
        /\ ret.features.tx_count_1h = 0
        /\ ret.features.tx_count_24h = 0
        /\ ret.features.tx_count_7d = 0

LacksRequired(tx) == tx.missing \cap {"amount", "timestamp", "user_id", "location"} # {}

\* C5: a call with a transaction that lacks amount, timestamp, user_id or
\* location raises, and historical_transactions is what it was before the call:
\* nothing appended, nothing evicted.
C5_MalformedLeavesHistory ==
    (Called /\ LacksRequired(ret.tx)) =>
        /\ ret.status = "raise"
        /\ historical_transactions = ret.before

\* C5 happens: a malformed transaction was rejected while the frame held a row
\* that an eviction pass at that time would have removed.
C5_Witness ==
    /\ Called
    /\ LacksRequired(ret.tx)
    /\ ret.status = "raise"
    /\ EvictOld(ret.before, ret.at) # ret.before

(***************************************************************************)
(* The steps of a thread in FeatureProcessor.process_transaction.  The     *)
(* processor takes no lock, and a thread may be switched between any two   *)
(* bytecodes: a step is one load or one store of the attribute             *)
(* self.historical_transactions together with the thread-local work up to  *)
(* the next access.  An expression such as                                 *)
(*     self.historical_transactions[self.historical_transactions[c] == v]  *)
(* loads the attribute twice, first the frame that is indexed and then the *)
(* frame whose column gives the mask; a store of another thread may come   *)
(* between the two.  `me` is the state of the call: its position, the      *)
(* frame and the mask it holds, and what it computed so far; a step gives  *)
(* the call and the shared frame after it.                                 *)
(***************************************************************************)
NewCall(tx) ==
    [pc |-> "features", tx |-> tx, snap |-> EmptyFrame, mask |-> NoMask,
     stats |-> None, loc |-> None, features |-> None, exception |-> ""]

Step(me, frame) == [me |-> me, frame |-> frame]

\* The call ends by raising e.
Raised(me, e) ==
    [me EXCEPT !.pc = "raised", !.exception = e, !.snap = EmptyFrame,
               !.mask = NoMask, !.stats = None, !.loc = None]

\* update_historical_data, lines 121-131: tx_df is built (KeyError on a missing
\* key), then self.historical_transactions is loaded as the first operand of
\* pd.concat.
BuildAndLoad(me, frame) ==
    IF NewRow(me.tx) = None
    THEN {Step(Raised(me, "KeyError"), frame)}
    ELSE {Step([me EXCEPT !.pc = "concat", !.snap = frame], frame)}

\* lines 130-132: the concatenated, renumbered frame is stored.
StoreConcat(me, frame) ==
    {Step([me EXCEPT !.pc = "evict", !.snap = EmptyFrame],
          ConcatReset(me.snap, NewRow(me.tx)))}

\* lines 135-136: the cutoff, and the load of the frame that is to be filtered.
LoadForEvict(me, frame) ==
    {Step([me EXCEPT !.pc = "evict_mask", !.snap = frame], frame)}

\* line 137: the frame is loaded again for the mask, and the frame loaded at
\* line 136 is indexed with it.
FilterForEvict(me, frame, clock) ==
    LET kept == BoolIndex(me.snap, SinceMask(frame, clock - lookback_days * 24))
    IN  IF kept.raised
        THEN {Step(Raised(me, "IndexingError"), frame)}
        ELSE {Step([me EXCEPT !.pc = "store_evict", !.snap = kept.frame], frame)}

\* line 136: the filtered frame is stored.
StoreEvict(me, frame) ==
    {Step([me EXCEPT !.pc = "stats", !.snap = EmptyFrame], me.snap)}

\* _calculate_user_statistics, line 30: the load of the frame that is indexed.
LoadForStats(me, frame) ==
    {Step([me EXCEPT !.pc = "stats_user", !.snap = frame], frame)}

\* line 31: the load for the mask of the user's rows.
LoadUserMask(me, frame) ==
    {Step([me EXCEPT !.pc = "stats_since",
                     !.mask = UserMask(frame, me.tx.user_id)], frame)}

\* lines 32-49: the load for the mask of the rows within the lookback, the
\* selection, and the statistics of the selected rows.
ComputeStats(me, frame) ==
    LET lookback_date == to_datetime(me.tx.timestamp) - lookback_days * 24
        user_history == BoolIndex(me.snap,
                            AndMask(me.mask, SinceMask(frame, lookback_date)))
    IN  IF user_history.raised
        THEN {Step(Raised(me, "IndexingError"), frame)}
        ELSE {Step([me EXCEPT !.pc = "location", !.snap = EmptyFrame, !.mask = NoMask,
                              !.stats = UserStatistics(user_history.frame.rows)],
                   frame)}

\* _calculate_location_features, line 60: the frame is loaded and tested for
\* emptiness; an empty frame gives the distance of line 72.
CheckEmpty(me, frame) ==
    IF frame.rows = <<>>
    THEN {Step([me EXCEPT !.pc = "velocity", !.loc = NoDistance], frame)}
    ELSE {Step([me EXCEPT !.pc = "last_tx"], frame)}

\* line 62: the load of the frame that is indexed.
LoadForLocation(me, frame) ==
    {Step([me EXCEPT !.pc = "last_tx_mask", !.snap = frame], frame)}

\* lines 63-70: the load for the mask of the user's rows, the selection, its
\* last row by timestamp and the distance to it.
ComputeLocation(me, frame) ==
    LET user_history == BoolIndex(me.snap, UserMask(frame, me.tx.user_id))
    IN  IF user_history.raised
        THEN {Step(Raised(me, "IndexingError"), frame)}
        ELSE {Step(IF loc.raised
                   THEN Raised(me, "IndexError")
                   ELSE [me EXCEPT !.pc = "velocity", !.snap = EmptyFrame, !.loc = loc],
                   frame) :
                 loc \in LastTxDistance(user_history.frame.rows, me.tx)}

\* _calculate_velocity_features, line 90: the load of the frame that is indexed.
LoadForVelocity(me, frame) ==
    {Step([me EXCEPT !.pc = "velocity_mask", !.snap = frame], frame)}

\* lines 91-113 and process_transaction, lines 176-180: the load for the mask
\* of the user's rows, the selection and its counts; the feature vector is
\* returned.
ComputeVelocityAndReturn(me, frame) ==
    LET user_history == BoolIndex(me.snap, UserMask(frame, me.tx.user_id))
    IN  IF user_history.raised
        THEN {Step(Raised(me, "IndexingError"), frame)}
        ELSE {Step([me EXCEPT
                      !.pc = "returned", !.snap = EmptyFrame, !.stats = None,
                      !.loc = None,
                      !.features =
                          FeatureVector(BasicFeatures(me.tx), me.stats, me.loc,
                              VelocityCounts(user_history.frame.rows,
                                             to_datetime(me.tx.timestamp)))],
                   frame)}

\* The positions of a call inside FeatureProcessor.process_transaction.
FeaturePositions ==
    {"features", "concat", "evict", "evict_mask", "store_evict", "stats",
     "stats_user", "stats_since", "location", "last_tx", "last_tx_mask",
     "velocity", "velocity_mask"}

\* The next step of the call `me`, lines 150-180 in their order.
FeatureStep(me, frame, clock) ==
    CASE me.pc = "features" -> BuildAndLoad(me, frame)
      [] me.pc = "concat" -> StoreConcat(me, frame)
      [] me.pc = "evict" -> LoadForEvict(me, frame)
      [] me.pc = "evict_mask" -> FilterForEvict(me, frame, clock)
      [] me.pc = "store_evict" -> StoreEvict(me, frame)
      [] me.pc = "stats" -> LoadForStats(me, frame)
      [] me.pc = "stats_user" -> LoadUserMask(me, frame)
      [] me.pc = "stats_since" -> ComputeStats(me, frame)
      [] me.pc = "location" -> CheckEmpty(me, frame)
      [] me.pc = "last_tx" -> LoadForLocation(me, frame)
      [] me.pc = "last_tx_mask" -> ComputeLocation(me, frame)
      [] me.pc = "velocity" -> LoadForVelocity(me, frame)
      [] me.pc = "velocity_mask" -> ComputeVelocityAndReturn(me, frame)
      [] OTHER -> {}

\* self.historical_transactions as the threads find it, and a store to it.
Frame == [rows |-> historical_transactions, index |-> frame_index]

StoreFrame(frame) ==
    /\ historical_transactions' = frame.rows
    /\ frame_index' = frame.index

(***************************************************************************)
(* SpecConc: NumWorkers threads, each running                              *)
(* FeatureProcessor.process_transaction once on one fresh processor.       *)
(***************************************************************************)
TxIds == <<"TX1", "TX2", "TX3", "TX4">>

\* What worker w may be given: a transaction of either user, current or two
\* hours old, or one without amount.
WorkerTransactions(w) ==
    LET good == {Tx(TxIds[w], u, 10 * w, StartClock - g, <<0, 0>>) :
                    u \in Users, g \in {0, 2}}
    IN  good \cup {Drop(Tx(TxIds[w], 1, 10 * w, StartClock, <<0, 0>>), "amount")}

Threads == 1..NumWorkers

InitConc ==
    /\ historical_transactions = <<>>
    /\ frame_index = <<>>
    /\ now = StartClock
    /\ ret = NoCall
    /\ workers \in {ws \in [Threads -> UNION {{NewCall(tx) : tx \in WorkerTransactions(w)} : w \in Threads}] :
                      \A w \in Threads : ws[w].tx \in WorkerTransactions(w)}
    /\ batch = None
    /\ metrics = None
    /\ scorer_calls = 0
    /\ redis = EmptyRedis
    /\ clients = <<>>
    /\ last_put = None
    /\ optimizer = None
    /\ recovery = None

ConcFrame == <<now, ret, batch, metrics, scorer_calls, redis, clients, last_put, optimizer, recovery>>

\* Thread w takes the next step of its call.
ThreadStep(w) ==
    /\ \E out \in FeatureStep(workers[w], Frame, now) :
          /\ workers' = [workers EXCEPT ![w] = out.me]
          /\ StoreFrame(out.frame)
    /\ UNCHANGED ConcFrame

NextConc == \E w \in Threads : ThreadStep(w)

SpecConc == InitConc /\ [][NextConc]_vars

(***************************************************************************)
(* Claims about concurrent calls, checked under SpecConc.                  *)
(***************************************************************************)
\* update_historical_data of the call of w has returned.
UpdateDone(w) ==
    \/ workers[w].pc \in {"stats", "stats_user", "stats_since", "location", "last_tx",
                          "last_tx_mask", "velocity", "velocity_mask", "returned"}
    \/ workers[w].pc = "raised" /\ workers[w].exception = "IndexError"
CallDone(w) == workers[w].pc \in {"returned", "raised"}

InWindow(tx) == NewRow(tx) # None /\ NewRow(tx).timestamp >= now - lookback_days * 24

SameEntity == \A v, w \in Threads : workers[v].tx.user_id = workers[w].tx.user_id

Occurrences(frame, row) == Len(SelectSeq(frame, LAMBDA e : e = row))

\* C3: when NumWorkers workers have each appended one in-window row for the
\* same entity, the frame holds exactly NumWorkers rows, each worker's row
\* once: no append is lost and none is duplicated.
C3_NoAppendLost ==
    (SameEntity /\ \A w \in Threads : InWindow(workers[w].tx) /\ UpdateDone(w)) =>
        /\ Len(historical_transactions) = NumWorkers
        /\ \A w \in Threads :
              Occurrences(historical_transactions, NewRow(workers[w].tx)) = 1

\* What a call returns to its caller.
Outcome(status, features) == [status |-> status, features |-> features]

\* How the call of w ended.
StatusOf(w) == IF workers[w].pc = "returned" THEN "ok" ELSE "raise"

\* The results of running the calls of the workers in S one after the other on
\* `frame`, in every order: the frame left and each worker's outcome.
RECURSIVE SequentialRuns(_, _)
SequentialRuns(frame, S) ==
    IF S = {} THEN {[frame |-> frame, outcomes |-> <<>>]}
    ELSE UNION {UNION {{[frame |-> rest.frame,
                         outcomes |-> (w :> Outcome(out.status, out.features)) @@ rest.outcomes] :
                            rest \in SequentialRuns(out.frame, S \ {w})} :
                       out \in process_transaction(frame, workers[w].tx, now)} :
                w \in S}

\* C4: concurrent calls are linearizable: once all calls have ended, the
\* outcomes and the frame are those of the calls run one after the other in
\* some order.
C4_Linearizable ==
    (SameEntity /\ \A w \in Threads : CallDone(w)) =>
        [frame |-> historical_transactions,
         outcomes |-> [w \in Threads |-> Outcome(StatusOf(w), workers[w].features)]]
            \in SequentialRuns(<<>>, Threads)

(***************************************************************************)
(* SpecPipe: the module pipeline/pipeline_orchestrator.py from its import  *)
(* on: the import, PipelineOrchestrator(config), and one process_batch.    *)
(* Each transaction of the batch is a work item of the thread pool running *)
(* PipelineOrchestrator.process_transaction.  A pool thread may be         *)
(* switched between any two lines: taking the work item, each call of the  *)
(* metrics collector (each of its metrics has a lock of its own), each     *)
(* step of the feature processor, the scorer and the return are steps of   *)
(* their own.  process_batch hands its transactions to the pool one        *)
(* executor.submit at a time, and the pool threads run between two         *)
(* submits.                                                                *)
(***************************************************************************)
EmptyDict == [empty |-> TRUE]

PipelineResult(transaction_id, features, prediction, status, error) ==
    [transaction_id |-> transaction_id, features |-> features,
     prediction |-> prediction, status |-> status, error |-> error]

\* f"Error processing transaction: {str(e)}"
ErrorMsg(e) == <<"Error processing transaction: ", e>>

\* The names bound when the class body of PipelineOrchestrator runs: those of
\* the import statements of lines 1-9 and the class of line 12.
OrchestratorGlobals ==
    {"Dict", "Any", "Optional", "datetime", "logging", "ThreadPoolExecutor",
     "dataclass", "TransactionConsumer", "FeatureProcessor", "FraudDetector",
     "MetricsCollector", "PipelineResult"}

\* The names the annotations of the def statements of the class body use
\* (lines 23, 42, 97-98 and 133).
AnnotationNames == {"Dict", "Any", "PipelineResult", "List"}

\* When the interpreter evaluates the annotations of a def statement: as the
\* function is defined (CPython up to 3.13), or not before something reads
\* them (CPython from 3.14 on).  setup.py asks for python_requires >= 3.9 and
\* pins no version, so the package is run by interpreters of either kind.
AnnotationModes == {"eager", "deferred"}

\* The transactions a batch is made of: two good ones of user 1, one of user 2
\* older than the lookback window, one without amount, one without transaction_id.
PipeTransactions ==
    {Tx("TX1", 1, 10, StartClock, <<0, 0>>),
     Tx("TX2", 1, 30, StartClock - 2, <<3, 4>>),
     Tx("TX3", 2, 10, StartClock - (lookback_days * 24 + 1), <<0, 0>>),
     Drop(Tx("TX4", 1, 10, StartClock, <<0, 0>>), "amount"),
     Drop(Tx("TX1", 1, 10, StartClock, <<0, 0>>), "transaction_id")}

RECURSIVE SeqsUpTo(_, _)
SeqsUpTo(S, k) ==
    IF k = 0 THEN {<<>>}
    ELSE LET shorter == SeqsUpTo(S, k - 1)
         IN  shorter \cup {Append(q, x) : q \in shorter, x \in S}

Batches == SeqsUpTo(PipeTransactions, MaxBatch) \ {<<>>}

\* config.get('max_workers', 4), or a pool of one thread
PoolSizes == {1, 4}

\* A work item of the pool: the call of process_transaction(tx) it will make,
\* with the locals of the feature processor's call inside it.
NewTask(tx) ==
    [tx |-> tx, pc |-> "queued", snap |-> EmptyFrame, mask |-> NoMask,
     stats |-> None, loc |-> None, features |-> None, prediction |-> None,
     scored |-> FALSE, exception |-> "", result |-> None]

\* MetricsCollector(): each metric with the number of its updates (the gauge:
\* its value).
NoMetrics == [active_transactions |-> 0, transaction_duration |-> 0,
              prediction_latency |-> 0, prediction_scores |-> 0,
              error_counter |-> 0, error_types |-> 0]

\* The orchestrator after __init__: no batch yet, a pool of m threads that was
\* not shut down.  after_shutdown and draining note, for the claims, whether
\* process_batch was called after shutdown() began, and which tasks were queued
\* or running when it began; overtook notes whether a task ended before a
\* task submitted ahead of it had ended; scheduled_with notes the optimizer's
\* current_thread_count at the time process_batch was called (0 when there is
\* no optimizer).
NewBatch(m) ==
    [phase |-> "idle", max_workers |-> m, futures |-> <<>>, results |-> <<>>,
     shutdown |-> "no", after_shutdown |-> FALSE, draining |-> {},
     scheduled_with |-> 0, overtook |-> FALSE]

\* The process before `import src.pipeline.pipeline_orchestrator`: there is no
\* orchestrator and no pool.
NotImported == [NewBatch(0) EXCEPT !.phase = "unimported"]

InitPipe ==
    /\ historical_transactions = <<>>
    /\ frame_index = <<>>
    /\ now = StartClock
    /\ ret = NoCall
    /\ workers = <<>>
    /\ batch = NotImported
    /\ metrics = None
    /\ scorer_calls = 0
    /\ redis = EmptyRedis
    /\ clients = <<>>
    /\ last_put = None
    /\ optimizer = None
    /\ recovery = None

PipeFrame == <<now, ret, workers, clients, last_put, optimizer, recovery>>

\* The import of the module, lines 1-150.  The def statement of line 97 names
\* List in its annotations, which nothing binds: an interpreter that evaluates
\* the annotations there raises NameError and the import fails; one that
\* defers them defines the class.
ImportModule(mode) ==
    /\ batch.phase = "unimported"
    /\ batch' = [batch EXCEPT !.phase =
                    IF mode = "eager" /\ ~(AnnotationNames \subseteq OrchestratorGlobals)
                    THEN "import_error" ELSE "imported"]
    /\ UNCHANGED <<historical_transactions, frame_index, metrics, scorer_calls, redis>>
    /\ UNCHANGED PipeFrame

\* PipelineOrchestrator(config), lines 23-40: a fresh FeatureProcessor, a
\* MetricsCollector and a ThreadPoolExecutor of m threads.
Construct(m) ==
    /\ batch.phase = "imported"
    /\ batch' = NewBatch(m)
    /\ metrics' = NoMetrics
    /\ StoreFrame(EmptyFrame)
    /\ UNCHANGED <<scorer_calls, redis>>
    /\ UNCHANGED PipeFrame

\* The orchestrator exists.
Constructed == batch.phase \notin {"unimported", "import_error", "imported"}

\* The task was taken from the queue and its call has not ended.
Running(i) ==
    batch.futures[i].pc \notin {"unsubmitted", "queued", "done", "failed"}
Finished(i) == batch.futures[i].pc \in {"done", "failed"}
InFlight == Cardinality({i \in 1..Len(batch.futures) : Running(i)})

TaskIds == 1..MaxBatch

SetTask(i, task) == batch' = [batch EXCEPT !.futures[i] = task]

\* The task of future i ends its step as `task`; when that ends the call while
\* a future submitted before it is not done, the workers completed out of order.
EndStep(i, task) ==
    batch' = [batch EXCEPT
                !.futures[i] = task,
                !.overtook = @ \/ (/\ task.pc \in {"done", "failed"}
                                   /\ \E j \in 1..(i - 1) : ~Finished(j))]

\* The results gathered from the last future to the first.
CollectReversed(futures) ==
    [i \in 1..Len(futures) |-> futures[Len(futures) + 1 - i].result]

\* line 115: results = [future.result() for future in futures]
CollectResults(futures) ==
    [i \in 1..Len(futures) |-> futures[i].result]

\* executor.submit without the check of the shutdown flag
AcceptsAlways == TRUE

\* executor.submit accepts work as long as the pool was not shut down.
Accepts == batch.shutdown = "no"

\* process_batch(txs) is called, line 107: nothing is submitted yet.
CallProcessBatch(txs) ==
    /\ batch.phase = "idle"
    /\ batch' = [batch EXCEPT
                   !.phase = "submitting",
                   !.futures = [i \in 1..Len(txs) |->
                                   [NewTask(txs[i]) EXCEPT !.pc = "unsubmitted"]],
                   !.after_shutdown = batch.shutdown # "no",
                   !.scheduled_with = IF optimizer = None THEN 0
                                      ELSE optimizer.current_thread_count]
    /\ UNCHANGED <<historical_transactions, frame_index, metrics, scorer_calls, redis>>
    /\ UNCHANGED PipeFrame

\* lines 109-112, one executor.submit: the task is queued, or the pool was shut
\* down, submit raises RuntimeError and process_batch logs it and raises.
Submit(i) ==
    /\ i \in DOMAIN batch.futures
    /\ batch.phase = "submitting"
    /\ batch.futures[i].pc = "unsubmitted"
    /\ \A j \in 1..(i - 1) : batch.futures[j].pc # "unsubmitted"
    /\ batch' = IF Accepts
                THEN [batch EXCEPT !.futures[i].pc = "queued",
                                   !.phase = IF i = Len(batch.futures)
                                             THEN "running" ELSE "submitting"]
                ELSE [batch EXCEPT !.phase = "raised"]
    /\ UNCHANGED <<historical_transactions, frame_index, metrics, scorer_calls, redis>>
    /\ UNCHANGED PipeFrame

\* A pool thread takes the next work item of the queue (the queue is first in,
\* first out, and the pool has max_workers threads) and calls
\* process_transaction, line 51.
TakeTask(i) ==
    /\ i \in DOMAIN batch.futures
    /\ batch.phase \in {"submitting", "running", "raised"}
    /\ batch.futures[i].pc = "queued"
    /\ \A j \in 1..(i - 1) : batch.futures[j].pc # "queued"
    /\ InFlight < batch.max_workers
    /\ SetTask(i, [batch.futures[i] EXCEPT !.pc = "start"])
    /\ UNCHANGED <<historical_transactions, frame_index, metrics, scorer_calls, redis>>
    /\ UNCHANGED PipeFrame

\* line 55: record_transaction_start(), active_transactions.inc()
RecordTransactionStart(i) ==
    /\ i \in DOMAIN batch.futures
    /\ batch.futures[i].pc = "start"
    /\ SetTask(i, [batch.futures[i] EXCEPT !.pc = "features"])
    /\ metrics' = [metrics EXCEPT !.active_transactions = @ + 1]
    /\ UNCHANGED <<historical_transactions, frame_index, scorer_calls, redis>>
    /\ UNCHANGED PipeFrame

\* line 58: features = self.feature_processor.process_transaction(transaction),
\* one step of that call; what it raises is caught at line 81.
GenerateFeatures(i) ==
    /\ i \in DOMAIN batch.futures
    /\ batch.futures[i].pc \in FeaturePositions
    /\ \E out \in FeatureStep(batch.futures[i], Frame, now) :
          /\ SetTask(i, out.me)
          /\ StoreFrame(out.frame)
    /\ UNCHANGED <<metrics, scorer_calls, redis>>
    /\ UNCHANGED PipeFrame

\* line 61: prediction = self.fraud_detector.predict(features)
Predict(i) ==
    /\ i \in DOMAIN batch.futures
    /\ batch.futures[i].pc = "returned"
    /\ \E out \in predict(batch.futures[i].features) :
          SetTask(i, IF out.raised
                     THEN [batch.futures[i] EXCEPT !.pc = "raised", !.scored = TRUE,
                                                   !.exception = "ScoringError"]
                     ELSE [batch.futures[i] EXCEPT !.pc = "end", !.scored = TRUE,
                                                   !.prediction = out.prediction])
    /\ scorer_calls' = scorer_calls + 1
    /\ UNCHANGED <<historical_transactions, frame_index, metrics, redis>>
    /\ UNCHANGED PipeFrame

\* lines 64-67, in record_transaction_end: active_transactions.dec()
DecActiveTransactions(i) ==
    /\ i \in DOMAIN batch.futures
    /\ batch.futures[i].pc = "end"
    /\ SetTask(i, [batch.futures[i] EXCEPT !.pc = "duration"])
    /\ metrics' = [metrics EXCEPT !.active_transactions = @ - 1]
    /\ UNCHANGED <<historical_transactions, frame_index, scorer_calls, redis>>
    /\ UNCHANGED PipeFrame

\* line 67, in record_transaction_end: transaction_duration.observe(duration)
ObserveTransactionDuration(i) ==
    /\ i \in DOMAIN batch.futures
    /\ batch.futures[i].pc = "duration"
    /\ SetTask(i, [batch.futures[i] EXCEPT !.pc = "latency"])
    /\ metrics' = [metrics EXCEPT !.transaction_duration = @ + 1]
    /\ UNCHANGED <<historical_transactions, frame_index, scorer_calls, redis>>
    /\ UNCHANGED PipeFrame

\* lines 68-71, in record_prediction: prediction_latency.observe(latency)
ObservePredictionLatency(i) ==
    /\ i \in DOMAIN batch.futures
    /\ batch.futures[i].pc = "latency"
    /\ SetTask(i, [batch.futures[i] EXCEPT !.pc = "scores"])
    /\ metrics' = [metrics EXCEPT !.prediction_latency = @ + 1]
    /\ UNCHANGED <<historical_transactions, frame_index, scorer_calls, redis>>
    /\ UNCHANGED PipeFrame

\* lines 68-71, in record_prediction: prediction_scores.observe(score)
ObservePredictionScores(i) ==
    /\ i \in DOMAIN batch.futures
    /\ batch.futures[i].pc = "scores"
    /\ SetTask(i, [batch.futures[i] EXCEPT !.pc = "result"])
    /\ metrics' = [metrics EXCEPT !.prediction_scores = @ + 1]
    /\ UNCHANGED <<historical_transactions, frame_index, scorer_calls, redis>>
    /\ UNCHANGED PipeFrame

\* lines 73-79: the result is built and returned; transaction['transaction_id']
\* raises KeyError when the key is missing, which line 81 catches.
ReturnResult(i) ==
    /\ i \in DOMAIN batch.futures
    /\ batch.futures[i].pc = "result"
    /\ LET task == batch.futures[i]
       IN  EndStep(i, IF Has(task.tx, "transaction_id")
                      THEN [task EXCEPT !.pc = "done",
                               !.result = PipelineResult(task.tx.transaction_id,
                                             task.features, task.prediction,
                                             "success", <<>>)]
                      ELSE [task EXCEPT !.pc = "raised", !.exception = "KeyError"])
    /\ UNCHANGED <<historical_transactions, frame_index, metrics, scorer_calls, redis>>
    /\ UNCHANGED PipeFrame

\* lines 81-86, the except branch, in record_error: error_counter.inc()
IncErrorCounter(i) ==
    /\ i \in DOMAIN batch.futures
    /\ batch.futures[i].pc = "raised"
    /\ SetTask(i, [batch.futures[i] EXCEPT !.pc = "error_types"])
    /\ metrics' = [metrics EXCEPT !.error_counter = @ + 1]
    /\ UNCHANGED <<historical_transactions, frame_index, scorer_calls, redis>>
    /\ UNCHANGED PipeFrame

\* line 86, in record_error: error_types.labels(error_type=error_type).inc()
IncErrorTypes(i) ==
    /\ i \in DOMAIN batch.futures
    /\ batch.futures[i].pc = "error_types"
    /\ SetTask(i, [batch.futures[i] EXCEPT !.pc = "error_result"])
    /\ metrics' = [metrics EXCEPT !.error_types = @ + 1]
    /\ UNCHANGED <<historical_transactions, frame_index, scorer_calls, redis>>
    /\ UNCHANGED PipeFrame

\* lines 88-95: the error result is built and returned;
\* transaction['transaction_id'] raises KeyError here too, and nothing catches it.
ReturnErrorResult(i) ==
    /\ i \in DOMAIN batch.futures
    /\ batch.futures[i].pc = "error_result"
    /\ LET task == batch.futures[i]
       IN  EndStep(i, IF Has(task.tx, "transaction_id")
                      THEN [task EXCEPT !.pc = "done",
                               !.result = PipelineResult(task.tx.transaction_id,
                                             EmptyDict, EmptyDict, "error",
                                             ErrorMsg(task.exception))]
                      ELSE [task EXCEPT !.pc = "failed", !.exception = "KeyError"])
    /\ UNCHANGED <<historical_transactions, frame_index, metrics, scorer_calls, redis>>
    /\ UNCHANGED PipeFrame

\* PipelineOrchestrator.process_transaction, lines 55-95: the next step of task i.
ProcessTransaction(i) ==
    \/ RecordTransactionStart(i)
    \/ GenerateFeatures(i)
    \/ Predict(i)
    \/ DecActiveTransactions(i)
    \/ ObserveTransactionDuration(i)
    \/ ObservePredictionLatency(i)
    \/ ObservePredictionScores(i)
    \/ ReturnResult(i)
    \/ IncErrorCounter(i)
    \/ IncErrorTypes(i)
    \/ ReturnErrorResult(i)

\* lines 115-127: every future.result() returned; the list of results is returned.
ReturnBatch ==
    /\ batch.phase = "running"
    /\ \A i \in 1..Len(batch.futures) : batch.futures[i].pc = "done"
    /\ batch' = [batch EXCEPT !.phase = "returned",
                    !.results = CollectResults(batch.futures)]
    /\ UNCHANGED <<historical_transactions, frame_index, metrics, scorer_calls, redis>>
    /\ UNCHANGED PipeFrame

\* lines 115, 129-131: a future.result() re-raises the task's exception, and
\* process_batch logs it and raises; the tasks behind it go on in the pool.
RaiseBatch ==
    /\ batch.phase = "running"
    /\ \E k \in 1..Len(batch.futures) :
          /\ batch.futures[k].pc = "failed"
          /\ \A j \in 1..(k - 1) : batch.futures[j].pc = "done"
    /\ batch' = [batch EXCEPT !.phase = "raised"]
    /\ UNCHANGED <<historical_transactions, frame_index, metrics, scorer_calls, redis>>
    /\ UNCHANGED PipeFrame

NextPipe ==
    \/ \E mode \in AnnotationModes : ImportModule(mode)
    \/ \E m \in PoolSizes : Construct(m)
    \/ \E txs \in Batches : CallProcessBatch(txs)
    \/ \E i \in TaskIds :
          \/ Submit(i)
          \/ TakeTask(i)
          \/ ProcessTransaction(i)
    \/ ReturnBatch
    \/ RaiseBatch

SpecPipe == InitPipe /\ [][NextPipe]_vars

(***************************************************************************)
(* Claims about the orchestrator, checked under SpecPipe.                  *)
(***************************************************************************)
Tasks == DOMAIN batch.futures

\* C6: PipelineOrchestrator.process_transaction never raises: a call ends by
\* returning, and a call in which feature processing, scoring or recording
\* failed returns a PipelineResult with status 'error' and a non-empty message.
C6_NeverRaises ==
    \A i \in Tasks :
        LET task == batch.futures[i]
        IN  /\ task.pc # "failed"
            /\ (task.pc = "done" /\ task.exception # "") =>
                  /\ task.result.status = "error"
                  /\ task.result.error # <<>>

IdsOf(txs) == {txs[i].transaction_id : i \in {j \in DOMAIN txs : Has(txs[j], "transaction_id")}}

\* C7: process_batch returns exactly one PipelineResult per submitted
\* transaction: it does not raise, and the list it returns is as long as the
\* input and carries the same transaction ids, each as often as the input.
C7_OneResultPerTransaction ==
    /\ batch.phase # "raised"
    /\ batch.phase = "returned" =>
          /\ Len(batch.results) = Len(batch.futures)
          /\ \A i \in Tasks : Has(batch.futures[i].tx, "transaction_id")
          /\ \A id \in {batch.futures[i].tx.transaction_id : i \in Tasks} :
                Cardinality({i \in Tasks : batch.results[i].transaction_id = id})
                    = Cardinality({i \in Tasks : batch.futures[i].tx.transaction_id = id})

\* C8: process_transaction looks the transaction id up in the prediction cache
\* before it calls the scorer: with a live entry under the id the scorer is not
\* called, and without one the fresh prediction is in the cache, under the id,
\* when the call returns it.  redis is the server a CacheManager of the same
\* process would talk to.
C8_CacheBeforeScorer ==
    \A i \in Tasks :
        LET task == batch.futures[i]
            key == PredKey(task.tx.transaction_id)
        IN  Has(task.tx, "transaction_id") =>
              /\ Live(redis, key, now) => ~task.scored
              /\ (task.pc = "done" /\ task.result.status = "success" /\ task.scored) =>
                    /\ Live(redis, key, now)
                    /\ loads(redis[key].data) = task.prediction

(***************************************************************************)
(* SpecCache: NumClients threads calling CacheManager.cache_prediction and *)
(* get_cached_prediction for one transaction key while time passes (the    *)
(* clock counts seconds here).  A call is three steps: the thread enters   *)
(* it, the server runs its command, and the reply reaches the thread and   *)
(* the call returns; commands of other threads and seconds may come        *)
(* between any two of them.  last_put keeps, for the claims, the last      *)
(* cache_prediction that returned and the last SETEX the server ran.       *)
(***************************************************************************)
CacheClients == 1..NumClients
TheKey == "TX1"
\* expire_in, in seconds, of the puts: a prediction is put with an expiry of
\* its own, so that two puts differ in value and in expiry.
ExpireInFor(prediction) == IF prediction.is_fraud THEN 2 ELSE 1

\* value, expire_in: the arguments of a put; expire_at: the expiry the server
\* gave it; reply: what the server answered to GET; got: what a get returned.
\* alone, follows and must are kept for the claims: whether a put met no
\* other put during its call, whether a get follows the put that returned
\* last with no put in between, and what that put and the instant at which
\* the server ran the GET ask of the get.
IdleClient == [pc |-> "idle", value |-> None, expire_in |-> 0, expire_at |-> 0,
               alone |-> FALSE, reply |-> None, follows |-> FALSE, must |-> None,
               got |-> None]

NeverPut == [value |-> None, expire_at |-> 0, alone |-> FALSE, written |-> None]

InitCache ==
    /\ historical_transactions = <<>>
    /\ frame_index = <<>>
    /\ now = 0
    /\ ret = NoCall
    /\ workers = <<>>
    /\ batch = None
    /\ metrics = None
    /\ scorer_calls = 0
    /\ redis = EmptyRedis
    /\ clients = [c \in CacheClients |-> IdleClient]
    /\ last_put = NeverPut
    /\ optimizer = None
    /\ recovery = None

CacheFrame == <<historical_transactions, frame_index, ret, workers, batch, metrics, scorer_calls,
               optimizer, recovery>>

PutInFlight == \E c \in CacheClients : clients[c].pc \in {"setex", "setex_reply"}

\* What a get has to return when the server ran it at ran_at, after the put
\* p and with no other put since.
Expected(p, ran_at) == IF ran_at < p.expire_at THEN p.value ELSE None

\* A thread enters cache_prediction(TheKey, prediction, expire_in).
CallCachePrediction(c, prediction, expire_in) ==
    /\ clients[c].pc \in {"idle", "got"}
    /\ clients' = [d \in CacheClients |->
          IF d = c
          THEN [IdleClient EXCEPT !.pc = "setex", !.value = prediction,
                                  !.expire_in = expire_in, !.alone = ~PutInFlight]
          ELSE IF clients[d].pc \in {"setex", "setex_reply"}
               THEN [clients[d] EXCEPT !.alone = FALSE]
          ELSE IF clients[d].pc = "get"
               THEN [clients[d] EXCEPT !.follows = FALSE]
          ELSE clients[d]]
    /\ UNCHANGED <<redis, now, last_put>>
    /\ UNCHANGED CacheFrame

\* cache_prediction, lines 52-56: the server runs SETEX with the JSON text.
CachePrediction(c) ==
    /\ clients[c].pc = "setex"
    /\ redis' = cache_prediction(redis, TheKey, clients[c].value, clients[c].expire_in, now)
    /\ clients' = [clients EXCEPT ![c].pc = "setex_reply",
                                  ![c].expire_in = 0,
                                  ![c].expire_at = now + clients[c].expire_in]
    /\ last_put' = [last_put EXCEPT !.written =
                       [value |-> clients[c].value,
                        expire_at |-> now + clients[c].expire_in]]
    /\ UNCHANGED now
    /\ UNCHANGED CacheFrame

\* cache_prediction, line 56: the reply arrives and the call returns.
CachePredictionReturns(c) ==
    /\ clients[c].pc = "setex_reply"
    /\ last_put' = [last_put EXCEPT !.value = clients[c].value,
                                    !.expire_at = clients[c].expire_at,
                                    !.alone = clients[c].alone]
    /\ clients' = [clients EXCEPT ![c] = IdleClient]
    /\ UNCHANGED <<redis, now>>
    /\ UNCHANGED CacheFrame

\* A thread enters get_cached_prediction(TheKey).
CallGetCachedPrediction(c) ==
    /\ clients[c].pc \in {"idle", "got"}
    /\ clients' = [clients EXCEPT ![c] =
          [IdleClient EXCEPT !.pc = "get",
              !.follows = ~PutInFlight /\ last_put.alone]]
    /\ UNCHANGED <<redis, now, last_put>>
    /\ UNCHANGED CacheFrame

\* get_cached_prediction, line 34: the server runs GET.
GetCachedPrediction(c) ==
    /\ clients[c].pc = "get"
    /\ redis' = RedisExpire(redis, PredKey(TheKey), now)
    /\ clients' = [clients EXCEPT ![c].pc = "get_reply",
                                  ![c].reply = RedisGet(redis, PredKey(TheKey), now),
                                  ![c].follows = FALSE,
                                  ![c].must = IF clients[c].follows
                                              THEN Some(Expected(last_put, now))
                                              ELSE None]
    /\ UNCHANGED <<now, last_put>>
    /\ UNCHANGED CacheFrame

\* get_cached_prediction, lines 34-37: the reply arrives; json.loads, return.
GetCachedPredictionReturns(c) ==
    /\ clients[c].pc = "get_reply"
    /\ clients' = [clients EXCEPT ![c] =
          [IdleClient EXCEPT !.pc = "got",
              !.got = [result |-> get_cached_prediction(clients[c].reply),
                       must |-> clients[c].must]]]
    /\ UNCHANGED <<redis, now, last_put>>
    /\ UNCHANGED CacheFrame

\* A second passes.
Second ==
    /\ now < MaxCacheClock
    /\ now' = now + 1
    /\ UNCHANGED <<redis, clients, last_put>>
    /\ UNCHANGED CacheFrame

NextCache ==
    \/ \E c \in CacheClients :
          \/ \E p \in Predictions : CallCachePrediction(c, p, ExpireInFor(p))
          \/ CachePrediction(c)
          \/ CachePredictionReturns(c)
          \/ CallGetCachedPrediction(c)
          \/ GetCachedPrediction(c)
          \/ GetCachedPredictionReturns(c)
    \/ Second

SpecCache == InitCache /\ [][NextCache]_vars

(***************************************************************************)
(* Claims about the prediction cache, checked under SpecCache.             *)
(***************************************************************************)
Got(c) == clients[c].pc = "got"

\* C9: a get_cached_prediction made after a cache_prediction(key, value, ttl)
\* returned, with no other put during that put or since, returns that value
\* when the server runs its GET before the TTL has elapsed, every time it is
\* made, and None once the TTL has elapsed.
C9_GetWithinTtl ==
    \A c \in CacheClients :
        (Got(c) /\ clients[c].got.must # None) =>
            clients[c].got.result = clients[c].got.must.some

\* C9 happens: of two gets after the same put, one, made before the expiry,
\* returned the value of the put and the other, made once the entry had
\* expired, returned None.
C9_Witness ==
    /\ last_put.alone
    /\ ~PutInFlight
    /\ now >= last_put.expire_at
    /\ \E c, d \in CacheClients :
          /\ Got(c) /\ Got(d)
          /\ clients[c].got.must = Some(last_put.value)
          /\ clients[c].got.result = last_put.value
          /\ clients[d].got.must = Some(None)
          /\ clients[d].got.result = None

\* What a get run by the server now returns.
GetNow == get_cached_prediction(RedisGet(redis, PredKey(TheKey), now))

\* C10 as stated: under every interleaving of cache_prediction and
\* get_cached_prediction calls on a key, a get returns None or the whole value
\* of a put, and once no put is in flight the key holds the value of the put
\* that returned last, with that put's expiry.
C10_LastCompletedWins ==
    /\ \A c \in CacheClients :
          Got(c) => (clients[c].got.result = None \/ clients[c].got.result \in Predictions)
    /\ (~PutInFlight /\ last_put.value # None /\ now < last_put.expire_at) =>
          /\ GetNow = last_put.value
          /\ redis[PredKey(TheKey)].expire_at = last_put.expire_at

\* C10 amended: a get returns None or the whole value of a put, and once no
\* put is in flight the key holds the value of the put whose SETEX the server
\* ran last, with that put's expiry; that put is the one that returned last
\* when the put that returned last met no other put during its call.
C10_LastWriteWins ==
    /\ \A c \in CacheClients :
          Got(c) => (clients[c].got.result = None \/ clients[c].got.result \in Predictions)
    /\ (~PutInFlight /\ last_put.written # None) =>
          /\ now < last_put.written.expire_at =>
                /\ GetNow = last_put.written.value
                /\ redis[PredKey(TheKey)].expire_at = last_put.written.expire_at
          /\ now >= last_put.written.expire_at => GetNow = None
          /\ last_put.alone =>
                /\ last_put.value = last_put.written.value
                /\ last_put.expire_at = last_put.written.expire_at

\* C10 happens: two puts of different values overlapped, the one the server
\* ran last returned first, both have returned, and the key holds the value
\* of the one the server ran last.
C10_Witness ==
    /\ ~PutInFlight
    /\ last_put.value # None
    /\ ~last_put.alone
    /\ last_put.value # last_put.written.value
    /\ now < last_put.expire_at
    /\ now < last_put.written.expire_at
    /\ GetNow = last_put.written.value

(***************************************************************************)
(* SpecOpt: utils.performance_optimizer.PerformanceOptimizer.  A tick is   *)
(* one run of _optimize_resources: it samples the CPU and memory           *)
(* percentages and adjusts the batch size and the thread count.            *)
(* Percentages are whole numbers; x < threshold * 0.7 is compared in       *)
(* tenths, which for these values is what the float comparison yields.     *)
(***************************************************************************)
ResourceThresholds(cpu, memory, bmin, bmax, tmin, tmax) ==
    [cpu_threshold |-> cpu, memory_threshold |-> memory,
     batch_size_min |-> bmin, batch_size_max |-> bmax,
     thread_count_min |-> tmin, thread_count_max |-> tmax]

\* The dataclass defaults, a narrow configuration, and one whose batch bounds
\* lie above the size the constructor starts with.
DefaultThresholds == ResourceThresholds(80, 85, 10, 1000, 2, 16)
ThresholdConfigs ==
    {DefaultThresholds,
     ResourceThresholds(80, 85, 80, 120, 3, 5),
     ResourceThresholds(80, 85, 200, 400, 2, 16)}

\* psutil.cpu_count() of the host
CpuCounts == {1, 2, 8}
\* psutil.cpu_percent() and psutil.virtual_memory().percent: below 0.7 x the
\* threshold, between that and the threshold, above the threshold.
CpuPercents == {50, 60, 90}
MemoryPercents == {50, 70, 90}

Max2(a, b) == IF a >= b THEN a ELSE b
Min2(a, b) == IF a <= b THEN a ELSE b

\* int(x * 0.8) and int(x * 1.2) for a non-negative integer x
IntTimes08(x) == (4 * x) \div 5
IntTimes12(x) == (6 * x) \div 5

IsHigh(percent, threshold) == percent > threshold
IsLow(percent, threshold) == 10 * percent < 7 * threshold

\* _decrease_batch_size: the new current_batch_size
decrease_batch_size(thresholds, current_batch_size) ==
    Max2(thresholds.batch_size_min, IntTimes08(current_batch_size))

\* _increase_batch_size without the clamp: a size that would pass batch_size_max
\* is not taken.
increase_batch_size_skipping(thresholds, current_batch_size) ==
    IF IntTimes12(current_batch_size) <= thresholds.batch_size_max
    THEN IntTimes12(current_batch_size)
    ELSE current_batch_size

\* _increase_batch_size: the new current_batch_size
increase_batch_size(thresholds, current_batch_size) ==
    Min2(thresholds.batch_size_max, IntTimes12(current_batch_size))

\* _optimize_thread_count: the new current_thread_count
optimize_thread_count(thresholds, cpu_count, current_thread_count, cpu_percent) ==
    IF IsHigh(cpu_percent, thresholds.cpu_threshold)
    THEN Max2(thresholds.thread_count_min,
              Min2(current_thread_count - 1, cpu_count - 1))
    ELSE IF IsLow(cpu_percent, thresholds.cpu_threshold)
    THEN Min2(thresholds.thread_count_max,
              Min2(current_thread_count + 1, cpu_count))
    ELSE current_thread_count

\* _optimize_resources: the optimizer after a tick that sampled the two percentages
optimize_resources(opt, cpu_percent, memory_percent) ==
    LET th == opt.thresholds
        size == IF \/ IsHigh(cpu_percent, th.cpu_threshold)
                   \/ IsHigh(memory_percent, th.memory_threshold)
                THEN decrease_batch_size(th, opt.current_batch_size)
                ELSE IF /\ IsLow(cpu_percent, th.cpu_threshold)
                        /\ IsLow(memory_percent, th.memory_threshold)
                THEN increase_batch_size(th, opt.current_batch_size)
                ELSE opt.current_batch_size
    IN  [opt EXCEPT
           !.current_batch_size = size,
           !.current_thread_count =
               optimize_thread_count(th, opt.cpu_count, opt.current_thread_count,
                                     cpu_percent),
           !.last = [ticked |-> TRUE,
                     cpu_percent |-> cpu_percent, memory_percent |-> memory_percent,
                     batch_size |-> opt.current_batch_size,
                     thread_count |-> opt.current_thread_count]]

NoTick == [ticked |-> FALSE, cpu_percent |-> 0, memory_percent |-> 0,
           batch_size |-> 0, thread_count |-> 0]

\* PerformanceOptimizer.__init__ on a host with cpu_count CPUs
NewOptimizer(thresholds, cpu_count) ==
    [thresholds |-> thresholds, cpu_count |-> cpu_count,
     current_batch_size |-> 100, current_thread_count |-> 4, last |-> NoTick]

InitOpt ==
    /\ historical_transactions = <<>>
    /\ frame_index = <<>>
    /\ now = StartClock
    /\ ret = NoCall
    /\ workers = <<>>
    /\ batch = None
    /\ metrics = None
    /\ scorer_calls = 0
    /\ redis = EmptyRedis
    /\ clients = <<>>
    /\ last_put = None
    /\ recovery = None
    /\ \E th \in ThresholdConfigs, n \in CpuCounts : optimizer = NewOptimizer(th, n)

OptFrame == <<historical_transactions, frame_index, now, ret, workers, batch, metrics,
              scorer_calls, redis, clients, last_put, recovery>>

\* One tick of the monitoring thread.
OptimizeResources(cpu_percent, memory_percent) ==
    /\ optimizer' = optimize_resources(optimizer, cpu_percent, memory_percent)
    /\ UNCHANGED OptFrame

NextOpt == \E c \in CpuPercents, m \in MemoryPercents : OptimizeResources(c, m)

SpecOpt == InitOpt /\ [][NextOpt]_vars

(***************************************************************************)
(* Claims about the optimizer, checked under SpecOpt.                      *)
(***************************************************************************)
Ticked == optimizer.last.ticked
CpuHigh == IsHigh(optimizer.last.cpu_percent, optimizer.thresholds.cpu_threshold)
MemoryHigh == IsHigh(optimizer.last.memory_percent, optimizer.thresholds.memory_threshold)
CpuLow == IsLow(optimizer.last.cpu_percent, optimizer.thresholds.cpu_threshold)
MemoryLow == IsLow(optimizer.last.memory_percent, optimizer.thresholds.memory_threshold)

\* C11: a tick that observed the CPU above its high threshold has strictly
\* decreased the batch size and has decreased or kept the worker count.
C11_HighCpuShrinks ==
    (Ticked /\ CpuHigh) =>
        /\ optimizer.current_batch_size < optimizer.last.batch_size
        /\ optimizer.current_thread_count <= optimizer.last.thread_count

\* C12: in every state, from construction on, the batch size lies within
\* [batch_size_min, batch_size_max] and the worker count within
\* [thread_count_min, thread_count_max].
C12_WithinBounds ==
    /\ optimizer.thresholds.batch_size_min <= optimizer.current_batch_size
    /\ optimizer.current_batch_size <= optimizer.thresholds.batch_size_max
    /\ optimizer.thresholds.thread_count_min <= optimizer.current_thread_count
    /\ optimizer.current_thread_count <= optimizer.thresholds.thread_count_max

\* C13: a tick on which neither percentage was above its threshold and the two
\* were not both below 0.7 x their thresholds has left the batch size and the
\* worker count as they were.
C13_MiddleTickChangesNothing ==
    (Ticked /\ ~CpuHigh /\ ~MemoryHigh /\ ~(CpuLow /\ MemoryLow)) =>
        /\ optimizer.current_batch_size = optimizer.last.batch_size
        /\ optimizer.current_thread_count = optimizer.last.thread_count

\* C14: a tick is a single step: the worker count has changed by at most 1, and
\* the batch size is what it was, or floor(0.8 x old) or floor(1.2 x old)
\* clamped at the configured bound.
C14_SingleStep ==
    Ticked =>
        /\ Abs(optimizer.current_thread_count - optimizer.last.thread_count) <= 1
        /\ optimizer.current_batch_size \in
              {optimizer.last.batch_size,
               Max2(optimizer.thresholds.batch_size_min,
                    IntTimes08(optimizer.last.batch_size)),
               Min2(optimizer.thresholds.batch_size_max,
                    IntTimes12(optimizer.last.batch_size))}

(***************************************************************************)
(* SpecRec: utils.error_recovery.ErrorRecovery.  recover_from_error is     *)
(* called from one thread.  The helpers the strategies call                *)
(* (_reconnect_service, _update_service_timeout, _free_memory, ...) are    *)
(* the places where a deployment puts its recovery logic: a helper does    *)
(* what the source does (it succeeds) or raises.  The connection strategy  *)
(* is a step per reconnection attempt; the other strategies are one step.  *)
(***************************************************************************)
default_max_connection_retries == 3
default_connection_retry_delay == 1
default_timeout == 30

\* The configuration after config.get(key, default): the defaults, and one
\* that sets all three keys.
RecoveryConfigs ==
    {[max_connection_retries |-> default_max_connection_retries,
      connection_retry_delay |-> default_connection_retry_delay,
      default_timeout |-> default_timeout],
     [max_connection_retries |-> 1, connection_retry_delay |-> 2, default_timeout |-> 20]}

\* self.recovery_strategies
recovery_strategies == {"connection_error", "timeout_error", "resource_error", "data_error"}

ErrorTypes == recovery_strategies \cup {"connection", "unknown_error"}

\* A context dict; "" stands for a key the dict does not hold (context.get
\* answers None, which is as false as ""), and is_none for context = None.
Context(service_name, resource_type, data_type) ==
    [is_none |-> FALSE, service_name |-> service_name,
     resource_type |-> resource_type, data_type |-> data_type]
NoneContext == [is_none |-> TRUE, service_name |-> "", resource_type |-> "", data_type |-> ""]
Contexts ==
    {Context("", "", ""), Context("kafka", "", ""), Context("kafka", "memory", "corrupt"),
     Context("", "cpu", ""), Context("", "disk", "missing"), Context("", "", "stale"),
     NoneContext}

\* How a piece of code ends: it raises, or returns a value.
Raise == [raised |-> TRUE, result |-> FALSE]
Return(b) == [raised |-> FALSE, result |-> b]

\* A try block without its except clause: what is raised goes on.
CatchNothing(o) == o

\* try: ... except Exception: log and return False
Catch(o) == IF o.raised THEN Return(FALSE) ELSE o

\* The strategy registered for an error type that falls back to the connection
\* strategy for an unknown type.
StrategyOrConnection(error_type) ==
    IF error_type \in recovery_strategies THEN error_type ELSE "connection_error"

\* The strategy recover_from_error picks: lines 37-44; "" when there is none.
Strategy(error_type) ==
    IF error_type \in recovery_strategies THEN error_type ELSE ""

\* range(max_retries) with its upper end included
InRangeInclusive(attempt, max_retries) == attempt <= max_retries

\* attempt in range(max_retries)
InRange(attempt, max_retries) == attempt < max_retries

\* A delay that grows by the base delay with every attempt.
RetryDelayLinear(base_delay, attempt) == base_delay * (attempt + 1)

RECURSIVE Pow2(_)
Pow2(k) == IF k = 0 THEN 1 ELSE 2 * Pow2(k - 1)

\* delay = base_delay * (2 ** attempt)
RetryDelay(base_delay, attempt) == base_delay * Pow2(attempt)

\* The timeout a second recovery would pass if it started from the value the
\* first had passed: 1.5 x 1.5 x the configured timeout.
NewTimeoutCompounded(config) == Rat(9 * config.default_timeout, 4)

\* new_timeout = self.config.get('default_timeout', 30) * 1.5
NewTimeout(config) == Rat(3 * config.default_timeout, 2)

\* Whether _handle_timeout_error calls _update_service_timeout
UpdatesTimeout(context) == ~context.is_none /\ context.service_name # ""

\* _handle_timeout_error, given whether _update_service_timeout succeeds
handle_timeout_error(context, helper_ok) ==
    Catch(IF context.is_none THEN Raise
          ELSE IF context.service_name # ""
               THEN (IF helper_ok THEN Return(TRUE) ELSE Raise)
               ELSE Return(FALSE))

\* _handle_resource_error, given whether _free_memory / _reduce_load succeeds
handle_resource_error(context, helper_ok) ==
    Catch(IF context.is_none THEN Raise
          ELSE IF context.resource_type \in {"memory", "cpu"}
               THEN (IF helper_ok THEN Return(TRUE) ELSE Raise)
               ELSE Return(FALSE))

\* _handle_data_error, given whether _recover_corrupt_data / _handle_missing_data succeeds
handle_data_error(context, helper_ok) ==
    Catch(IF context.is_none THEN Raise
          ELSE IF context.data_type \in {"corrupt", "missing"}
               THEN (IF helper_ok THEN Return(TRUE) ELSE Raise)
               ELSE Return(FALSE))

\* Whether the strategy calls a helper for this context
CallsHelper(strategy, context) ==
    /\ ~context.is_none
    /\ \/ strategy = "timeout_error" /\ context.service_name # ""
       \/ strategy = "resource_error" /\ context.resource_type \in {"memory", "cpu"}
       \/ strategy = "data_error" /\ context.data_type \in {"corrupt", "missing"}

\* What _update_service_timeout was passed in a call: nothing yet
NoUpdate == [service_name |-> "", timeout |-> Zero]

\* The calls of _update_service_timeout a behaviour makes at most.
MaxTimeoutUpdates == 2

\* ErrorRecovery.__init__(config); no call made yet.  timeout_updates counts
\* the calls of _update_service_timeout made since.
NewRecovery(config) ==
    [config |-> config, pc |-> "idle", error_type |-> "", context |-> Context("", "", ""),
     attempt |-> 0, attempts |-> 0, slept |-> <<>>, invoked |-> "",
     updated |-> NoUpdate, helper_raised |-> FALSE, failed |-> FALSE, result |-> FALSE,
     timeout_updates |-> 0]

InitRec ==
    /\ historical_transactions = <<>>
    /\ frame_index = <<>>
    /\ now = StartClock
    /\ ret = NoCall
    /\ workers = <<>>
    /\ batch = None
    /\ metrics = None
    /\ scorer_calls = 0
    /\ redis = EmptyRedis
    /\ clients = <<>>
    /\ last_put = None
    /\ optimizer = None
    /\ \E config \in RecoveryConfigs : recovery = NewRecovery(config)

RecFrame == <<historical_transactions, frame_index, now, ret, workers, batch, metrics,
              scorer_calls, redis, clients, last_put, optimizer>>

\* The call has ended with outcome o of recover_from_error's own try block.
Ended(call, o) ==
    [call EXCEPT !.pc = IF o.raised THEN "raised" ELSE "returned", !.result = o.result]

\* recover_from_error(error_type, context), lines 36-48: up to the return, or up
\* to the first reconnection attempt of the connection strategy.  helper_ok says
\* whether the helper the strategy calls succeeds.
CallRecoverFromError(error_type, context, helper_ok) ==
    /\ recovery.pc \in {"idle", "returned"}
    /\ helper_ok \/ CallsHelper(Strategy(error_type), context)
    /\ (Strategy(error_type) = "timeout_error" /\ UpdatesTimeout(context)) =>
           recovery.timeout_updates < MaxTimeoutUpdates
    /\ LET strategy == Strategy(error_type)
           call == [NewRecovery(recovery.config) EXCEPT
                      !.error_type = error_type, !.context = context,
                      !.invoked = strategy,
                      !.timeout_updates = recovery.timeout_updates]
       IN  recovery' =
             IF strategy = "" THEN Ended(call, Catch(Return(FALSE)))
             ELSE IF strategy = "connection_error"
             THEN IF InRange(0, call.config.max_connection_retries)
                  THEN [call EXCEPT !.pc = "reconnect"]
                  ELSE Ended(call, Catch(Catch(Return(FALSE))))
             ELSE LET o == IF strategy = "timeout_error"
                           THEN handle_timeout_error(context, helper_ok)
                           ELSE IF strategy = "resource_error"
                           THEN handle_resource_error(context, helper_ok)
                           ELSE handle_data_error(context, helper_ok)
                      helper_raised == CallsHelper(strategy, context) /\ ~helper_ok
                  IN  Ended([call EXCEPT
                               !.updated =
                                   IF strategy = "timeout_error" /\ UpdatesTimeout(context)
                                   THEN [service_name |-> context.service_name,
                                         timeout |-> NewTimeout(call.config)]
                                   ELSE NoUpdate,
                               !.timeout_updates =
                                   IF strategy = "timeout_error" /\ UpdatesTimeout(context)
                                   THEN @ + 1 ELSE @,
                               !.helper_raised = helper_raised,
                               !.failed = context.is_none \/ helper_raised],
                            Catch(o))
    /\ UNCHANGED RecFrame

\* _handle_connection_error, lines 64-77: one pass of the loop.  The attempt
\* succeeds and the call returns True, or it fails, the delay is slept, and the
\* loop goes on or ends with False.
ReconnectService(ok) ==
    /\ recovery.pc = "reconnect"
    /\ LET tried == [recovery EXCEPT !.attempts = @ + 1]
           delay == RetryDelay(recovery.config.connection_retry_delay, recovery.attempt)
           failed == [tried EXCEPT !.slept = Append(@, delay), !.attempt = @ + 1]
       IN  recovery' =
             IF ok THEN Ended(tried, Catch(Catch(Return(TRUE))))
             ELSE IF InRange(failed.attempt, failed.config.max_connection_retries)
                  THEN failed
                  ELSE Ended(failed, Catch(Catch(Return(FALSE))))
    /\ UNCHANGED RecFrame

NextRec ==
    \/ \E e \in ErrorTypes, c \in Contexts, h \in BOOLEAN : CallRecoverFromError(e, c, h)
    \/ \E ok \in BOOLEAN : ReconnectService(ok)

SpecRec == InitRec /\ [][NextRec]_vars

(***************************************************************************)
(* Claims about the recovery coordinator, checked under SpecRec.           *)
(***************************************************************************)
Recovered == recovery.pc = "returned"

\* C15: connection recovery with M = max_connection_retries makes at most M
\* reconnection attempts; an attempt that succeeds ends the call at once with
\* True, every failed attempt before it having been slept after; when all M
\* attempts failed the call returns False, and it never raises.
C15_AtMostMaxAttempts ==
    recovery.invoked = "connection_error" =>
        LET M == recovery.config.max_connection_retries
            failures == Len(recovery.slept)
        IN  /\ recovery.attempts <= M
            /\ recovery.pc # "raised"
            /\ recovery.attempts > failures =>
                  /\ Recovered /\ recovery.result
                  /\ recovery.attempts = failures + 1
            /\ Recovered =>
                  (recovery.result <=> recovery.attempts = failures + 1)
            /\ (Recovered /\ ~recovery.result) => failures = M
            /\ failures = M => (Recovered /\ ~recovery.result)

\* C15 happens: with three attempts allowed, all three were made and failed and
\* the call returned False.
C15_Witness ==
    /\ recovery.invoked = "connection_error"
    /\ Recovered /\ ~recovery.result
    /\ recovery.config.max_connection_retries = default_max_connection_retries
    /\ recovery.attempts = default_max_connection_retries
    /\ Len(recovery.slept) = default_max_connection_retries

\* C16: recover_from_error never raises: every call ends by returning a
\* boolean, and a call in which a strategy or helper failed returns False.
C16_RecoverNeverRaises ==
    /\ recovery.pc # "raised"
    /\ recovery.result \in BOOLEAN
    /\ (Recovered /\ recovery.failed) => ~recovery.result

\* C16 happens: a helper raised inside a strategy and the call returned False.
C16_Witness ==
    /\ Recovered
    /\ recovery.helper_raised
    /\ ~recovery.result

\* C17: recovery of a timeout_error in which the timeout update did not fail
\* has passed 1.5 x the timeout to the update for the service and returned
\* True, whatever the context is.
C17_TimeoutRaisedAndTrue ==
    (Recovered /\ recovery.invoked = "timeout_error" /\ ~recovery.helper_raised) =>
        /\ recovery.result
        /\ recovery.updated = [service_name |-> recovery.context.service_name,
                               timeout |-> NewTimeout(recovery.config)]

\* C18: a call with an error type outside the four known classes returns False
\* at once: no strategy is invoked, no reconnection attempt made, no delay slept.
C18_UnknownTypeFalse ==
    (recovery.pc # "idle" /\ recovery.error_type \notin recovery_strategies) =>
        /\ Recovered
        /\ ~recovery.result
        /\ recovery.invoked = ""
        /\ recovery.attempts = 0
        /\ recovery.slept = <<>>
        /\ recovery.updated = NoUpdate

\* C18 happens: a call with error type 'unknown_error' returned False.
C18_Witness ==
    /\ Recovered
    /\ recovery.error_type = "unknown_error"
    /\ ~recovery.result

(***************************************************************************)
(* SpecShut: PipelineOrchestrator.shutdown against process_batch.  The     *)
(* module is imported, the orchestrator built and the tasks run as in      *)
(* SpecPipe; shutdown() of another thread can begin before, between or     *)
(* after the submits of process_batch.  ThreadPoolExecutor:                *)
(* shutdown(wait=True) sets the pool's shutdown flag and then joins the    *)
(* pool threads, which end when the queue is empty; submit raises          *)
(* RuntimeError once the flag is set.                                      *)
(***************************************************************************)
\* A good transaction, one without amount, and one without amount and
\* transaction_id.
ShutTransactions ==
    {Tx("TX1", 1, 10, StartClock, <<0, 0>>),
     Drop(Tx("TX4", 1, 10, StartClock, <<0, 0>>), "amount"),
     Drop(Drop(Tx("TX1", 1, 10, StartClock, <<0, 0>>), "amount"), "transaction_id")}

\* max_workers of the configuration
ShutPoolSizes == {1, 2}

ShutBatches == SeqsUpTo(ShutTransactions, MaxBatch) \ {<<>>}

InitShut ==
    /\ historical_transactions = <<>>
    /\ frame_index = <<>>
    /\ now = StartClock
    /\ ret = NoCall
    /\ workers = <<>>
    /\ batch = NotImported
    /\ metrics = None
    /\ scorer_calls = 0
    /\ redis = EmptyRedis
    /\ clients = <<>>
    /\ last_put = None
    /\ optimizer = None
    /\ recovery = None

\* The pool threads have ended: nothing submitted is queued or running.
Drained == \A i \in DOMAIN batch.futures : batch.futures[i].pc \in {"unsubmitted", "done", "failed"}

\* shutdown(), line 148: executor.shutdown sets the flag.
BeginShutdown ==
    /\ Constructed
    /\ batch.shutdown = "no"
    /\ batch' = [batch EXCEPT
                   !.shutdown = "begun",
                   !.draining = {i \in DOMAIN batch.futures :
                                    batch.futures[i].pc = "queued" \/ Running(i)}]
    /\ UNCHANGED <<historical_transactions, frame_index, metrics, scorer_calls, redis>>
    /\ UNCHANGED PipeFrame

\* shutdown(), lines 148-150: the threads are joined and shutdown returns.
ShutdownReturns ==
    /\ batch.shutdown = "begun"
    /\ Drained
    /\ batch' = [batch EXCEPT !.shutdown = "returned"]
    /\ UNCHANGED <<historical_transactions, frame_index, metrics, scorer_calls, redis>>
    /\ UNCHANGED PipeFrame

NextShut ==
    \/ \E mode \in AnnotationModes : ImportModule(mode)
    \/ \E m \in ShutPoolSizes : Construct(m)
    \/ \E txs \in ShutBatches : CallProcessBatch(txs)
    \/ \E i \in TaskIds :
          \/ Submit(i)
          \/ TakeTask(i)
          \/ ProcessTransaction(i)
    \/ ReturnBatch
    \/ RaiseBatch
    \/ BeginShutdown
    \/ ShutdownReturns

SpecShut == InitShut /\ [][NextShut]_vars

(***************************************************************************)
(* Claims about shutdown, checked under SpecShut.                          *)
(***************************************************************************)
Submitted(i) == batch.futures[i].pc # "unsubmitted"

\* C19: when shutdown() has returned, no transaction is being processed: every
\* task submitted to the pool has run to its end and has produced its result.
C19_ShutdownDrains ==
    batch.shutdown = "returned" =>
        \A i \in DOMAIN batch.futures :
            Submitted(i) =>
                /\ batch.futures[i].pc = "done"
                /\ batch.futures[i].result # None

\* The same for the transactions that carry a transaction_id, of which
\* process_transaction can build the result.
ShutdownDrainsWithId ==
    batch.shutdown = "returned" =>
        \A i \in DOMAIN batch.futures :
            (Submitted(i) /\ Has(batch.futures[i].tx, "transaction_id")) =>
                /\ batch.futures[i].pc = "done"
                /\ batch.futures[i].result # None

\* No task is cut short: when shutdown() has returned, every submitted task has
\* ended, by returning or by raising.
ShutdownInterruptsNothing ==
    batch.shutdown = "returned" =>
        \A i \in DOMAIN batch.futures : Submitted(i) => Finished(i)

\* C20: of a process_batch call made after shutdown() began no transaction is
\* processed: no task is submitted or started, no row is appended to the
\* history, and the scorer is not called.
C20_NoWorkAfterShutdown ==
    batch.after_shutdown =>
        /\ \A i \in DOMAIN batch.futures : ~Submitted(i)
        /\ historical_transactions = <<>>
        /\ scorer_calls = 0

\* C20 happens: process_batch was called with transactions after shutdown()
\* began, and has raised.
C20_Witness ==
    /\ batch.after_shutdown
    /\ batch.phase = "raised"
    /\ Len(batch.futures) > 0

(***************************************************************************)
(* Further claims about FeatureProcessor.process_transaction, under Spec.  *)
(***************************************************************************)
\* The frame the feature computations of the call read: the frame before the
\* call with the row of the call appended and the eviction pass applied.
ReadRows == update_historical_data(ret.before, ret.tx, ret.at)

\* The entity's most recent rows among those appended by earlier calls: a row of
\* greatest timestamp, or the row appended last.
MostRecentPrior ==
    LET rows == UserRows(PriorRows, ret.tx.user_id)
    IN  LastByTimestamp(rows) \cup {rows[Len(rows)]}

\* C21: when the entity has a row appended by an earlier call, the returned
\* distance_from_last_tx is the planar distance between the location of the
\* transaction and the location of the entity's most recent such row, not the
\* row of the transaction being processed.
C21_DistanceFromPrior ==
    (Returned /\ UserRows(PriorRows, ret.tx.user_id) # <<>>) =>
        ret.features.distance_from_last_tx \in
            {Distance(ret.tx, r) : r \in MostRecentPrior}

\* A call whose update_historical_data ran its eviction pass.
Evicted == Called /\ NewRow(ret.tx) # None

\* C22: after an eviction pass no row of any entity in historical_transactions
\* has a timestamp older than the lookback window counted back from the clock
\* of that pass.
C22_NoneOlderThanLookback ==
    Evicted =>
        \A i \in 1..Len(historical_transactions) :
            historical_transactions[i].timestamp >= ret.at - lookback_days * 24

\* C22 happens: the pass removed a row that an earlier call had appended and
\* that aged past the window since.
C22_Witness ==
    /\ Evicted
    /\ \E i \in 1..Len(ret.before) :
           ret.before[i].timestamp < ret.at - lookback_days * 24
    /\ Len(historical_transactions) < Len(ret.before) + 1

FeatureSchema ==
    {"amount", "hour_of_day", "is_weekend", "avg_amount", "max_amount", "std_amount",
     "transaction_frequency", "distance_from_last_tx", "tx_count_1h", "tx_count_24h",
     "tx_count_7d"}

\* C25: every returned feature vector has exactly the keys amount, hour_of_day,
\* is_weekend, avg_amount, max_amount, std_amount, transaction_frequency,
\* distance_from_last_tx, tx_count_1h, tx_count_24h and tx_count_7d, with or
\* without rows of the entity in the frame.
C25_CompleteSchema ==
    Returned => DOMAIN ret.features = FeatureSchema

\* C25 happens: a call returned although the frame it read held no row at all
\* (its own row was evicted at once), so every part took its empty branch.
C25_Witness ==
    /\ Returned
    /\ ReadRows = <<>>
    /\ DOMAIN ret.features = FeatureSchema

\* C26: a call for an entity without a row to compare with returns
\* distance_from_last_tx = 0.0 and does not raise, also when the frame holds
\* rows of other entities only.
C26_NoPriorGivesZero ==
    (Evicted /\ UserRows(PriorRows, ret.tx.user_id) = <<>>) =>
        /\ Returned
        /\ ret.features.distance_from_last_tx = Zero

\* The entity's rows in the frame the call reads whose timestamp lies in the
\* window of `hours` that ends at the timestamp of the transaction.
CountWithin(hours) ==
    LET t == to_datetime(ret.tx.timestamp)
    IN  Len(SelectSeq(UserRows(ReadRows, ret.tx.user_id),
                      LAMBDA e : e.timestamp >= t - hours /\ e.timestamp <= t))

\* C30: tx_count_1h, tx_count_24h and tx_count_7d are each the number of the
\* entity's rows whose timestamp lies within the trailing window of that
\* length ending at the timestamp of the transaction; a row with a later
\* timestamp is not counted.
C30_TrailingWindowCounts ==
    Returned =>
        /\ ret.features.tx_count_1h = CountWithin(1)
        /\ ret.features.tx_count_24h = CountWithin(24)
        /\ ret.features.tx_count_7d = CountWithin(7 * 24)

(***************************************************************************)
(* Further claims about the optimizer, checked under SpecOpt.              *)
(***************************************************************************)
\* C27: a tick that observed memory above its high threshold and the CPU
\* below 0.7 x its threshold has applied the shrink step to the batch size and
\* has not increased the worker count.
C27_HighMemoryNoMoreWorkers ==
    (Ticked /\ MemoryHigh /\ CpuLow) =>
        /\ optimizer.current_batch_size =
              decrease_batch_size(optimizer.thresholds, optimizer.last.batch_size)
        /\ optimizer.current_thread_count <= optimizer.last.thread_count

\* C28: a tick that observed both percentages below 0.7 x their thresholds has
\* increased the worker count by exactly 1, unless the count was already at
\* thread_count_max or at the CPU count of the host, in which case it has
\* stayed; on no host has the count decreased.
C28_LowTickAddsOneWorker ==
    (Ticked /\ CpuLow /\ MemoryLow) =>
        optimizer.current_thread_count =
            IF \/ optimizer.last.thread_count >= optimizer.thresholds.thread_count_max
               \/ optimizer.last.thread_count >= optimizer.cpu_count
            THEN optimizer.last.thread_count
            ELSE optimizer.last.thread_count + 1

(***************************************************************************)
(* SpecMon: the monitoring thread that PerformanceOptimizer.__init__       *)
(* starts (utils/performance_optimizer.py, _start_monitoring).  The thread *)
(* is workers[1]; in this specification `now` counts seconds.  The loop is *)
(*     while True:                                                         *)
(*         try: self._optimize_resources(); time.sleep(60)                 *)
(*         except Exception as e: self.logger.error(...)                   *)
(* A name that is not bound in the module raises NameError where it is     *)
(* evaluated; NameError is an Exception and is caught by the handler.      *)
(***************************************************************************)
\* The names the import statements and the class statements of the module bind.
ModuleGlobals ==
    {"psutil", "threading", "Dict", "Any", "logging", "dataclass",
     "ResourceThresholds", "PerformanceOptimizer"}

\* The argument of time.sleep in the loop, in seconds.
monitor_interval == 60

\* The ticks of one behaviour and the seconds it spans.
MaxMonitorTicks == 3
MaxMonitorClock == 120
\* Seconds that pass between two steps of the thread.
Elapses == {30}

\* threading.Thread(target=monitor, daemon=True).start(): the thread is about
\* to run _optimize_resources; it has not ticked (-1: no tick yet).
NewMonitor == [pc |-> "optimize", ticks |-> 0, last_tick |-> 0 - 1, prev_tick |-> 0 - 1]

InitMon ==
    /\ historical_transactions = <<>>
    /\ frame_index = <<>>
    /\ now = 0
    /\ ret = NoCall
    /\ workers = <<NewMonitor>>
    /\ batch = None
    /\ metrics = None
    /\ scorer_calls = 0
    /\ redis = EmptyRedis
    /\ clients = <<>>
    /\ last_put = None
    /\ recovery = None
    /\ \E n \in CpuCounts : optimizer = NewOptimizer(DefaultThresholds, n)

MonFrame == <<historical_transactions, frame_index, ret, batch, metrics, scorer_calls, redis,
              clients, last_put, recovery>>

\* self._optimize_resources() in the loop: a tick.
MonitorTick(cpu_percent, memory_percent) ==
    /\ workers[1].pc = "optimize"
    /\ workers[1].ticks < MaxMonitorTicks
    /\ optimizer' = optimize_resources(optimizer, cpu_percent, memory_percent)
    /\ workers' = <<[pc |-> "sleep", ticks |-> workers[1].ticks + 1,
                     last_tick |-> now, prev_tick |-> workers[1].last_tick]>>
    /\ UNCHANGED now
    /\ UNCHANGED MonFrame

\* time.sleep(60): the name `time` is looked up; if it is bound the thread
\* sleeps for the interval, and if it is not the statement raises NameError.
MonitorSleep ==
    /\ workers[1].pc = "sleep"
    /\ IF "time" \in ModuleGlobals
       THEN /\ now + monitor_interval <= MaxMonitorClock
            /\ now' = now + monitor_interval
            /\ workers' = <<[workers[1] EXCEPT !.pc = "optimize"]>>
       ELSE /\ workers' = <<[workers[1] EXCEPT !.pc = "except"]>>
            /\ UNCHANGED now
    /\ UNCHANGED optimizer
    /\ UNCHANGED MonFrame

\* except Exception as e: self.logger.error(...); the loop starts over.
MonitorExcept ==
    /\ workers[1].pc = "except"
    /\ workers' = <<[workers[1] EXCEPT !.pc = "optimize"]>>
    /\ UNCHANGED <<now, optimizer>>
    /\ UNCHANGED MonFrame

\* Time passes while the thread is between two steps.
Elapse(d) ==
    /\ now + d <= MaxMonitorClock
    /\ now' = now + d
    /\ UNCHANGED <<workers, optimizer>>
    /\ UNCHANGED MonFrame

NextMon ==
    \/ \E c \in CpuPercents, m \in MemoryPercents : MonitorTick(c, m)
    \/ MonitorSleep
    \/ MonitorExcept
    \/ \E d \in Elapses : Elapse(d)

SpecMon == InitMon /\ [][NextMon]_vars

\* C29: consecutive ticks of the monitoring loop are separated by the interval
\* of 60 seconds: a tick that follows another tick was made at least 60
\* seconds after it.
C29_TicksSpacedByInterval ==
    workers[1].prev_tick >= 0 =>
        workers[1].last_tick - workers[1].prev_tick >= monitor_interval

(***************************************************************************)
(* Further claims about the orchestrator.                                  *)
(***************************************************************************)
\* C24: every transaction the orchestrator handles is counted in at its start
\* and counted out exactly once at its end, on the success path and on the
\* error path: with no transaction in flight the active-transactions gauge is 0.
C24_GaugeZeroWhenIdle ==
    (Constructed /\ \A i \in Tasks : ~Running(i)) => metrics.active_transactions = 0

(***************************************************************************)
(* SpecSched: a PipelineOrchestrator and a PerformanceOptimizer in one     *)
(* process.  The orchestrator runs process_batch as in SpecPipe; the       *)
(* optimizer's monitoring thread ticks at any time.  The orchestrator's    *)
(* pool is the ThreadPoolExecutor its constructor created.                 *)
(***************************************************************************)
\* Thresholds that let the thread count fall to 1.
SchedThresholds == ResourceThresholds(80, 85, 80, 120, 1, 5)
\* The samples of the ticks: a busy CPU.
SchedCpuPercents == {90}
SchedMemoryPercents == {50}

InitSched ==
    /\ historical_transactions = <<>>
    /\ frame_index = <<>>
    /\ now = StartClock
    /\ ret = NoCall
    /\ workers = <<>>
    /\ batch = NotImported
    /\ metrics = None
    /\ scorer_calls = 0
    /\ redis = EmptyRedis
    /\ clients = <<>>
    /\ last_put = None
    /\ \E n \in CpuCounts : optimizer = NewOptimizer(SchedThresholds, n)
    /\ recovery = None

NextSched ==
    \/ \E mode \in AnnotationModes : ImportModule(mode)
    \/ \E m \in PoolSizes : Construct(m)
    \/ \E txs \in ShutBatches : CallProcessBatch(txs)
    \/ \E i \in TaskIds :
          \/ Submit(i)
          \/ TakeTask(i)
          \/ ProcessTransaction(i)
    \/ ReturnBatch
    \/ RaiseBatch
    \/ \E c \in SchedCpuPercents, m \in SchedMemoryPercents : OptimizeResources(c, m)

SpecSched == InitSched /\ [][NextSched]_vars

\* C23: process_batch runs its transactions on a pool of as many workers as
\* the optimizer's worker count was when the batch was scheduled: never are
\* more transactions of the batch in flight than that count, whatever the
\* ticks did to the count before the batch or do to it while the batch runs.
C23_PoolSizedByOptimizer ==
    batch.phase \in {"submitting", "running", "returned", "raised"} =>
        InFlight <= batch.scheduled_with

(***************************************************************************)
(* Claims about the statistics, the frame and the counts, under Spec.      *)
(***************************************************************************)
\* The population standard deviation (ddof = 0) of a non-empty series.
PopulationStd(s) ==
    LET k == Len(s)
    IN  SqrtOf(Rat(k * SumSeq(Squares(s)) - SumSeq(s) * SumSeq(s), k * k))

\* The amounts of the window _calculate_user_statistics of the call reads.
WindowAmounts ==
    Column(SelectSeq(ReadRows, LAMBDA e :
               /\ e.user_id = ret.tx.user_id
               /\ e.timestamp >= to_datetime(ret.tx.timestamp) - lookback_days * 24),
           "amount")

\* C31: std_amount is the population standard deviation of the amounts in the
\* window: a number for every non-empty window, and 0 for a window of exactly
\* one entry.
C31_PopulationStd ==
    (Returned /\ WindowAmounts # <<>>) =>
        /\ ret.features.std_amount # NaN
        /\ ret.features.std_amount = PopulationStd(WindowAmounts)

InWindowAt(e, clock) == e.timestamp >= clock - lookback_days * 24

\* C32: a call of update_historical_data changes the frame only by appending
\* the row of its transaction and by removing the rows older than the cutoff:
\* every row that remains has the fields it had, in the order it had, and no
\* in-window row of any entity is gone.
C32_OnlyAppendAndEvict ==
    Evicted =>
        historical_transactions =
            SelectSeq(Append(ret.before, NewRowLenient(ret.tx)),
                      LAMBDA e : InWindowAt(e, ret.at))

\* C32 happens: the call found an in-window row with another amount of the
\* same entity, left it as it was and appended its own row behind it.
C32_Witness ==
    /\ Evicted
    /\ Len(ret.before) = 1
    /\ ret.before[1].user_id = ret.tx.user_id
    /\ ret.before[1].amount # ret.tx.amount
    /\ InWindowAt(ret.before[1], ret.at)
    /\ historical_transactions = <<ret.before[1], NewRowLenient(ret.tx)>>

\* The transaction of the call is older than the lookback window at the clock
\* of the call.
StaleTransaction == Evicted /\ ~InWindowAt(NewRowLenient(ret.tx), ret.at)

\* The feature vectors of the transaction of the call computed over the rows
\* of earlier calls alone.
FeaturesWithoutOwnRow ==
    {FeatureVector(BasicFeatures(ret.tx),
                   calculate_user_statistics(PriorRows, ret.tx.user_id,
                                             to_datetime(ret.tx.timestamp)),
                   loc,
                   calculate_velocity_features(PriorRows, ret.tx)) :
        loc \in {l \in calculate_location_features(PriorRows, ret.tx) : ~l.raised}}

\* C35: eviction is counted back from the wall clock, not from the timestamp
\* of the transaction: a transaction older than now minus lookback_days is
\* removed by the eviction pass of its own call, so after the call the frame
\* holds no row of it, and the features the call returns are computed without it.
C35_StaleOwnRowEvicted ==
    StaleTransaction =>
        /\ historical_transactions = PriorRows
        /\ \A i \in 1..Len(historical_transactions) :
               historical_transactions[i] # NewRowLenient(ret.tx)
        /\ Returned => ret.features \in FeaturesWithoutOwnRow

\* C35 happens: a stale transaction of an entity that has an in-window row
\* returned its features.
C35_Witness ==
    /\ StaleTransaction
    /\ Returned
    /\ UserRows(PriorRows, ret.tx.user_id) # <<>>
    /\ ret.features.tx_count_7d = 1

\* C38: in every returned feature vector tx_count_1h <= tx_count_24h <=
\* tx_count_7d, and each is at most the number of rows of the entity in the
\* frame.
C38_CountsNested ==
    Returned =>
        /\ ret.features.tx_count_1h <= ret.features.tx_count_24h
        /\ ret.features.tx_count_24h <= ret.features.tx_count_7d
        /\ ret.features.tx_count_7d <= Len(UserRows(historical_transactions, ret.tx.user_id))

\* C38 happens: the entity has a row two hours older than the transaction, so
\* the one-hour count is smaller than the 24-hour count.
C38_Witness ==
    /\ Returned
    /\ ret.features.tx_count_1h = 1
    /\ ret.features.tx_count_24h = 2
    /\ ret.features.tx_count_7d = 2

(***************************************************************************)
(* Claims about failures after feature processing, checked under SpecPipe, *)
(* and about the order of the results, checked under SpecShut.             *)
(***************************************************************************)
\* The scorer was called with the features of task i and failed.
ScorerFailed(i) == batch.futures[i].scored /\ batch.futures[i].prediction = None

Holds(frame, row) == \E k \in 1..Len(frame) : frame[k] = row

\* C33: when feature processing succeeded and the scorer then failed, the call
\* returns a result with status 'error' and empty features, and the row that
\* feature processing appended for the transaction is still in the frame (if
\* it is within the lookback window): the failure rolls nothing back.
C33_FailureKeepsHistory ==
    \A i \in Tasks :
        (ScorerFailed(i) /\ Finished(i)) =>
            LET task == batch.futures[i]
            IN  /\ task.pc = "done"
                /\ task.result.status = "error"
                /\ task.result.features = EmptyDict
                /\ InWindowAt(NewRow(task.tx), now) =>
                       Holds(historical_transactions, NewRow(task.tx))

\* The same for the transactions that carry a transaction_id, for which the
\* handler can build its result, in a pool of one thread, where no task runs
\* while another is between its load and its store of the frame.
FailureKeepsHistoryWithId ==
    \A i \in Tasks :
        (/\ ScorerFailed(i) /\ Finished(i)
         /\ Has(batch.futures[i].tx, "transaction_id")
         /\ batch.max_workers = 1) =>
            LET task == batch.futures[i]
            IN  /\ task.pc = "done"
                /\ task.result.status = "error"
                /\ task.result.features = EmptyDict
                /\ InWindowAt(NewRow(task.tx), now) =>
                       Holds(historical_transactions, NewRow(task.tx))

\* C34: process_batch returns its results in the order of submission, whatever
\* the order in which the workers completed: the i-th result carries the
\* transaction id of the i-th transaction of the batch.
C34_ResultsInSubmissionOrder ==
    batch.phase = "returned" =>
        /\ Len(batch.results) = Len(batch.futures)
        /\ \A i \in Tasks :
               batch.results[i].transaction_id = batch.futures[i].tx.transaction_id

\* C34 happens: a batch of two transactions with different ids returned after
\* the second had completed before the first.
C34_Witness ==
    /\ batch.phase = "returned"
    /\ batch.overtook
    /\ Len(batch.futures) = 2
    /\ batch.futures[1].tx.transaction_id # batch.futures[2].tx.transaction_id
    /\ batch.results[2].transaction_id = batch.futures[2].tx.transaction_id

(***************************************************************************)
(* SpecLoad: the optimizer under a load that lasts.  The monitoring thread *)
(* (workers[1]) ticks for ever; its `ticks` field counts the ticks modulo  *)
(* 2, so that a tick that changes neither size nor count is still a step,  *)
(* and its `load` field notes, for the claims, what the ticks so far       *)
(* observed: only high loads, only low loads, or neither.  The loop never  *)
(* ends (while True), which is the fairness condition.                     *)
(***************************************************************************)
\* Thresholds whose batch_size_min is 1.
LowFloorThresholds == ResourceThresholds(80, 85, 1, 1000, 2, 16)
\* The host of the load runs.
LoadCpuCount == 8

\* The monitoring thread before its first tick.
LoadMonitor ==
    [pc |-> "optimize", ticks |-> 0, last_tick |-> 0 - 1, prev_tick |-> 0 - 1,
     load |-> "none"]

InitLoad ==
    /\ historical_transactions = <<>>
    /\ frame_index = <<>>
    /\ now = 0
    /\ ret = NoCall
    /\ workers = <<LoadMonitor>>
    /\ batch = None
    /\ metrics = None
    /\ scorer_calls = 0
    /\ redis = EmptyRedis
    /\ clients = <<>>
    /\ last_put = None
    /\ recovery = None
    /\ \E th \in ThresholdConfigs \cup {LowFloorThresholds} :
          optimizer = NewOptimizer(th, LoadCpuCount)

\* What the ticks so far observed, once one more tick observed the two percentages.
LoadAfter(load, cpu_percent, memory_percent) ==
    LET th == optimizer.thresholds
        this == IF \/ IsHigh(cpu_percent, th.cpu_threshold)
                   \/ IsHigh(memory_percent, th.memory_threshold)
                THEN "high"
                ELSE IF /\ IsLow(cpu_percent, th.cpu_threshold)
                        /\ IsLow(memory_percent, th.memory_threshold)
                THEN "low"
                ELSE "mixed"
    IN  IF load \in {"none", this} THEN this ELSE "mixed"

\* self._optimize_resources() in the loop of the monitoring thread.
LoadTick(cpu_percent, memory_percent) ==
    /\ optimizer' = optimize_resources(optimizer, cpu_percent, memory_percent)
    /\ workers' = <<[workers[1] EXCEPT
                       !.ticks = 1 - @,
                       !.load = LoadAfter(@, cpu_percent, memory_percent)]>>
    /\ UNCHANGED now
    /\ UNCHANGED MonFrame

\* The samples of a load that lasts: idle or busy.
LoadCpuPercents == {50, 90}
LoadMemoryPercents == {50, 90}

NextLoad == \E c \in LoadCpuPercents, m \in LoadMemoryPercents : LoadTick(c, m)

SpecLoad == InitLoad /\ [][NextLoad]_vars /\ WF_vars(NextLoad)

HighTick == Ticked /\ (CpuHigh \/ MemoryHigh)
LowTick == Ticked /\ CpuLow /\ MemoryLow
EveryTickHigh == Ticked => HighTick
EveryTickLow == Ticked => LowTick
AtBatchSizeMin == optimizer.current_batch_size = optimizer.thresholds.batch_size_min
AtBatchSizeMax == optimizer.current_batch_size = optimizer.thresholds.batch_size_max

\* C36: for any configured bounds, when every tick observes the CPU or the
\* memory above its high threshold, the batch size reaches batch_size_min after
\* finitely many ticks and stays there; when every tick observes both below
\* 0.7 x their thresholds, the batch size reaches batch_size_max after finitely
\* many ticks and stays there.
C36_ConvergesToBound ==
    /\ []EveryTickHigh => <>[]AtBatchSizeMin
    /\ []EveryTickLow => <>[]AtBatchSizeMax

\* C36 happens: every tick so far observed a low load, the batch size has grown
\* from the 100 of the constructor to a greater batch_size_max, and the last
\* tick found it there and left it there.
C36_Witness ==
    /\ workers[1].load = "low"
    /\ optimizer.thresholds.batch_size_max >= 1000
    /\ AtBatchSizeMax
    /\ optimizer.last.batch_size = optimizer.thresholds.batch_size_max

(***************************************************************************)
(* Further claims about the recovery coordinator, checked under SpecRec.   *)
(***************************************************************************)
\* C37: timeout recoveries do not compound: whatever the number of timeout
\* recoveries made before, the timeout passed to _update_service_timeout is
\* 1.5 x the configured default_timeout, and no step changes the
\* configuration of the coordinator.
C37_TimeoutDoesNotCompound ==
    [][/\ recovery'.config = recovery.config
       /\ recovery'.updated # NoUpdate =>
              recovery'.updated.timeout = Rat(3 * recovery.config.default_timeout, 2)]_vars

\* C37 happens: the second timeout recovery for the service passed 1.5 x the
\* configured default of 30 seconds, 45 seconds, as the first had.
C37_Witness ==
    /\ Recovered
    /\ recovery.invoked = "timeout_error"
    /\ recovery.timeout_updates = 2
    /\ recovery.config.default_timeout = default_timeout
    /\ recovery.updated = [service_name |-> "kafka", timeout |-> Rat(45, 1)]

\* C39: in connection recovery the delay slept after the k-th failed attempt,
\* k counted from 0, is the base delay x 2^k: each delay is twice the one
\* before it, and no delay is slept before the attempt it follows.
C39_ExponentialBackoff ==
    recovery.invoked = "connection_error" =>
        /\ Len(recovery.slept) <= recovery.attempts
        /\ \A k \in 0..(Len(recovery.slept) - 1) :
               /\ recovery.slept[k + 1] = recovery.config.connection_retry_delay * Pow2(k)
               /\ k > 0 => recovery.slept[k + 1] = 2 * recovery.slept[k]

\* C39 happens: three attempts failed and the delays slept were 1, 2 and 4
\* seconds.
C39_Witness ==
    /\ recovery.invoked = "connection_error"
    /\ recovery.config.connection_retry_delay = default_connection_retry_delay
    /\ recovery.slept = <<1, 2, 4>>

=============================================================================
